---- MODULE Spec2Model ----
(***************************************************************************)
(* Model of the DataVents example frontend: the GraphModal live order-book *)
(* client (WebSocket life cycle, frame handling, order-book reconciler),   *)
(* the DvWsPanel WebSocket client, the order-book frame parser, the       *)
(* EventCard, the SearchPage, the HistoryProvider and the chart's          *)
(* toLineData.                                                             *)
(*                                                                         *)
(* Numbers.  A JavaScript number that stands for a price or a raw vendor   *)
(* value is an integer counting 1/Unit (1/100000): 0.45 is 45000, the raw  *)
(* percent value 45 is 4500000.  Sizes and deltas are whole numbers.       *)
(* A JavaScript value is a record [k, v]: k = "num" is a finite number v,  *)
(* "numstr" a numeric string, "str" any other string, "nan" NaN, "null"    *)
(* null and "undef" undefined (an absent property); for the normalizers    *)
(* also "emptystr" (the empty string), "bool" (false 0, true 1) and "inf"  *)
(* (Infinity).                                                             *)
(*                                                                         *)
(* Scheduling.  The browser runs one task at a time: every handler below   *)
(* is one action.  React state setters are taken to be committed when the  *)
(* handler returns.                                                        *)
(***************************************************************************)
EXTENDS Integers, Sequences, FiniteSets, TLC

VARIABLES
    component,          \* which client the behaviour is about
    wsUrlOk,            \* the configured WebSocket URL is one the constructor accepts
    \* ---- browser WebSocket objects
    sockets,            \* socket id -> [readyState, opened, log, recv, sub]
    nSockets,           \* sockets constructed so far
    page,               \* "mounted", "unmounted" or "unloaded"
    wsRef,              \* wsRef.current of the client: a socket id, 0 for null
    \* ---- GraphModal
    open, market,
    wsStateRef, wsState,
    wsMessageCountRef, wsEventCount,
    wsLastEventRef, wsLastEvent,
    wsHistoryIdRef, wsError,
    bookRef, obBids, obAsks,
    \* ---- DvWsPanel
    panelOpen, payload, state, stateRef, messageCountRef,
    lastEvent, lastEventRef, historyEntryId, error,
    \* ---- reconciler harness
    pending,            \* <<update>> handed to the reconciler, or <<>>
    before,             \* <<book>> before the pending update was applied, or <<>>
    \* ---- normalizer harness
    norm,               \* [arg: the raw value, runs: the results of a copy applied to it]
    \* ---- the market prop of GraphModal, as an object
    marketFields,       \* [provider, ticker, market_id, vendor_market_id, slug]
    \* ---- EventCard
    card,               \* the props and state of one EventCard, NoCard before it mounts
    \* ---- parser harness
    parsed,             \* [vendor, raw, out] of one parseOrderbookLevels call, or NoParse
    \* ---- SearchPage
    search,             \* the state, refs, timers and requests of one SearchPage
    \* ---- HistoryProvider
    hist,               \* the state and refs of the HistoryProvider and the IndexedDB store
    \* ---- PriceChart harness
    line,               \* [points, out, called] of one toLineData call, or NoLine
    \* ---- observation (history variables, never read by the handlers)
    applied,            \* frames given to the reconciler since the book was created
    stopped             \* sockets that disconnectWs / disconnect was called on

gmVars == <<open, market, wsStateRef, wsState, wsMessageCountRef,
            wsEventCount, wsLastEventRef, wsLastEvent, wsHistoryIdRef, wsError>>
bookVars == <<bookRef, obBids, obAsks>>
panelVars == <<panelOpen, payload, state, stateRef, messageCountRef, lastEvent,
               lastEventRef, historyEntryId, error>>
sockVars == <<sockets, nSockets, page, wsRef>>
obsVars == <<applied, stopped>>
harnessVars == <<pending, before>>
normVars == <<norm>>
extVars == <<marketFields, card, parsed, search, hist, line>>
vars == <<component, wsUrlOk, sockVars, gmVars, bookVars, panelVars, harnessVars,
          normVars, extVars, obsVars>>

----------------------------------------------------------------------------
(* Bounds of the model *)
MaxTimers == 3      \* timers the debounce effect of one SearchPage arms
MaxRequests == 2    \* search requests one SearchPage issues
MaxPoints == 3      \* points in one list given to toLineData
MaxCalls == 3       \* add(), update() and clear() calls on one HistoryProvider
MaxSockets == 2     \* sockets one client constructs in a behaviour
MaxMsgs == 2        \* messages delivered to one client in a behaviour
MaxSize == 3        \* largest size a book level grows to in the harness
MaxLevels == 2      \* levels in one update of the harness
MaxTopKeys == 11       \* prices per side in the top-of-book runs

(* Program constants *)
MsPerSecond == 1000       \* toLineData: milliseconds to chart seconds
HistoryMax == 200         \* HistoryProvider: entries kept in memory
MaxLimit == 50            \* buildSearchUrl: largest limit sent
BasisPoints == 10000      \* quantize: 1 bp precision
TopN == 10                \* levels displayed per side
Percent == 100            \* normProb: percent divisor

Unit == 10 * BasisPoints  \* model resolution: one price unit is 1/Unit

----------------------------------------------------------------------------
(* JavaScript values *)

Num(n) == [k |-> "num", v |-> n]
NumStr(n) == [k |-> "numstr", v |-> n]
Str == [k |-> "str", v |-> 0]
NaN == [k |-> "nan", v |-> 0]
Inf == [k |-> "inf", v |-> 0]
EmptyStr == [k |-> "emptystr", v |-> 0]
Bool(b) == [k |-> "bool", v |-> IF b THEN 1 ELSE 0]
Blank == [k |-> "blank", v |-> 0]
Null == [k |-> "null", v |-> 0]
Undef == [k |-> "undef", v |-> 0]

\* Number(x)
ToNumber(x) ==
    IF x.k = "num" \/ x.k = "numstr" \/ x.k = "bool" THEN Num(x.v)
    ELSE IF x.k = "null" \/ x.k = "emptystr" \/ x.k = "blank" THEN Num(0)
    ELSE IF x.k = "inf" THEN Inf
    ELSE NaN

\* Number.isFinite(x): a number that is not NaN (infinities are not modelled)
IsFinite(x) == x.k = "num"

\* typeof x === "number" ? x : NaN
NumberOrNaN(x) == IF x.k = "num" \/ x.k = "nan" THEN x ELSE NaN

Max(a, b) == IF a >= b THEN a ELSE b
Min(a, b) == IF a <= b THEN a ELSE b

\* normProb that returns a number outside the three ranges as it is
normProb_NoClamp(v) ==
    IF v.k = "null" \/ v.k = "undef" THEN Null
    ELSE LET n == ToNumber(v) IN
         IF ~IsFinite(n) THEN Null
         ELSE IF n.v <= Unit /\ n.v >= 0 THEN n
         ELSE IF n.v > Unit /\ n.v <= Percent * Unit THEN Num(n.v \div Percent)
         ELSE IF n.v > Percent * Unit /\ n.v <= BasisPoints * Unit
              THEN Num(n.v \div BasisPoints)
         ELSE n

\* normProb of parse.ts: null, or a fraction in units of 1/Unit
normProb(v) ==
    IF v.k = "null" \/ v.k = "undef" THEN Null
    ELSE LET n == ToNumber(v) IN
         IF ~IsFinite(n) THEN Null
         ELSE IF n.v <= Unit /\ n.v >= 0 THEN n
         ELSE IF n.v > Unit /\ n.v <= Percent * Unit THEN Num(n.v \div Percent)
         ELSE IF n.v > Percent * Unit /\ n.v <= BasisPoints * Unit
              THEN Num(n.v \div BasisPoints)
         ELSE Num(Max(0, Min(Unit, n.v)))

\* normProb of GraphModal
GraphModal_normProb(v) ==
    IF v.k = "null" \/ v.k = "undef" THEN Null
    ELSE LET n == ToNumber(v) IN
         IF ~IsFinite(n) THEN Null
         ELSE IF n.v <= Unit /\ n.v >= 0 THEN n
         ELSE IF n.v > Unit /\ n.v <= 100 * Unit THEN Num(n.v \div 100)
         ELSE IF n.v > 100 * Unit /\ n.v <= 10000 * Unit THEN Num(n.v \div 10000)
         ELSE Num(Max(0, Min(Unit, n.v)))

\* EventCard norm without the range (100, 10000]
EventCard_norm_NoBps(v) ==
    IF v.k = "null" \/ v.k = "undef" THEN Null
    ELSE LET n == ToNumber(v) IN
         IF ~IsFinite(n) THEN Null
         ELSE IF n.v >= 0 /\ n.v <= Unit THEN n
         ELSE IF n.v > Unit /\ n.v <= 100 * Unit THEN Num(n.v \div 100)
         ELSE Num(Max(0, Min(Unit, n.v)))

\* norm of EventCard (sortedItems)
EventCard_norm(v) ==
    IF v.k = "null" \/ v.k = "undef" THEN Null
    ELSE LET n == ToNumber(v) IN
         IF ~IsFinite(n) THEN Null
         ELSE IF n.v >= 0 /\ n.v <= Unit THEN n
         ELSE IF n.v > Unit /\ n.v <= 100 * Unit THEN Num(n.v \div 100)
         ELSE IF n.v > 100 * Unit /\ n.v <= 10000 * Unit THEN Num(n.v \div 10000)
         ELSE Num(Max(0, Min(Unit, n.v)))

\* normProb of EventCard (market cards)
EventCard_normProb(v) ==
    IF v.k = "null" \/ v.k = "undef" THEN Null
    ELSE LET n == ToNumber(v) IN
         IF ~IsFinite(n) THEN Null
         ELSE IF n.v >= 0 /\ n.v <= Unit THEN n
         ELSE IF n.v > Unit /\ n.v <= 100 * Unit THEN Num(n.v \div 100)
         ELSE IF n.v > 100 * Unit /\ n.v <= 10000 * Unit THEN Num(n.v \div 10000)
         ELSE Num(Max(0, Min(Unit, n.v)))

----------------------------------------------------------------------------
(* Order book: a side is a function from quantized price to size, its     *)
(* domain the keys of the Map.                                            *)

EmptyMap == <<>>
EmptyBook == [bids |-> EmptyMap, asks |-> EmptyMap]

MapHas(m, key) == key \in DOMAIN m
MapSet(m, key, val) == [x \in (DOMAIN m) \cup {key} |-> IF x = key THEN val ELSE m[x]]
MapDelete(m, key) == [x \in (DOMAIN m) \ {key} |-> m[x]]

\* quantize that leaves the price as it is
quantize_None(p) == p

\* Math.round(p * 10000) / 10000, for p >= 0 in units of 1/Unit
quantize(p) == ((p * BasisPoints + Unit \div 2) \div Unit) * (Unit \div BasisPoints)

\* ApplyLevel with "next < 0" and "size < 0" for the two "<= 0" tests
ApplyLevel_KeepsZero(m, lvl) ==
    LET price == NumberOrNaN(lvl.price)
        size == NumberOrNaN(lvl.size)
        delta == NumberOrNaN(lvl.delta)
    IN  IF ~IsFinite(price) THEN m
        ELSE LET p == quantize(price.v) IN
             IF IsFinite(delta)
             THEN LET has == MapHas(m, p)
                      prev == IF has THEN m[p] ELSE 0
                      next == prev + delta.v
                  IN  IF ~has /\ delta.v < 0 THEN m
                      ELSE IF next < 0 THEN MapDelete(m, p)
                      ELSE MapSet(m, p, next)
             ELSE IF IsFinite(size)
             THEN IF size.v < 0 THEN MapDelete(m, p) ELSE MapSet(m, p, size.v)
             ELSE m

\* ApplyLevel that stores prev + delta whatever its sign
ApplyLevel_DeltaAlwaysSet(m, lvl) ==
    LET price == NumberOrNaN(lvl.price)
        size == NumberOrNaN(lvl.size)
        delta == NumberOrNaN(lvl.delta)
    IN  IF ~IsFinite(price) THEN m
        ELSE LET p == quantize(price.v) IN
             IF IsFinite(delta)
             THEN LET has == MapHas(m, p)
                      prev == IF has THEN m[p] ELSE 0
                      next == prev + delta.v
                  IN  MapSet(m, p, next)
             ELSE IF IsFinite(size)
             THEN IF size.v <= 0 THEN MapDelete(m, p) ELSE MapSet(m, p, size.v)
             ELSE m

\* ApplyLevel that takes a delta for the new size
ApplyLevel_DeltaAsSize(m, lvl) ==
    LET price == NumberOrNaN(lvl.price)
        size == NumberOrNaN(lvl.size)
        delta == NumberOrNaN(lvl.delta)
    IN  IF ~IsFinite(price) THEN m
        ELSE LET p == quantize(price.v) IN
             IF IsFinite(delta)
             THEN LET has == MapHas(m, p)
                      prev == IF has THEN m[p] ELSE 0
                      next == prev + delta.v
                  IN  IF ~has /\ delta.v < 0 THEN m
                      ELSE IF delta.v <= 0 THEN MapDelete(m, p)
                      ELSE MapSet(m, p, delta.v)
             ELSE IF IsFinite(size)
             THEN IF size.v <= 0 THEN MapDelete(m, p) ELSE MapSet(m, p, size.v)
             ELSE m

\* ApplyLevel that adds an absolute size to the size held
ApplyLevel_SizeAsDelta(m, lvl) ==
    LET price == NumberOrNaN(lvl.price)
        size == NumberOrNaN(lvl.size)
        delta == NumberOrNaN(lvl.delta)
    IN  IF ~IsFinite(price) THEN m
        ELSE LET p == quantize(price.v) IN
             IF IsFinite(delta)
             THEN LET has == MapHas(m, p)
                      prev == IF has THEN m[p] ELSE 0
                      next == prev + delta.v
                  IN  IF ~has /\ delta.v < 0 THEN m
                      ELSE IF next <= 0 THEN MapDelete(m, p)
                      ELSE MapSet(m, p, next)
             ELSE IF IsFinite(size)
             THEN LET held == IF MapHas(m, p) THEN m[p] ELSE 0
                  IN  IF held + size.v <= 0 THEN MapDelete(m, p)
                      ELSE MapSet(m, p, held + size.v)
             ELSE m

\* one iteration of the level loop of applyBookUpdateRef
ApplyLevel(m, lvl) ==
    LET price == NumberOrNaN(lvl.price)
        size == NumberOrNaN(lvl.size)
        delta == NumberOrNaN(lvl.delta)
    IN  IF ~IsFinite(price) THEN m
        ELSE LET p == quantize(price.v) IN
             IF IsFinite(delta)
             THEN LET has == MapHas(m, p)
                      prev == IF has THEN m[p] ELSE 0
                      next == prev + delta.v
                  IN  IF ~has /\ delta.v < 0 THEN m
                      ELSE IF next <= 0 THEN MapDelete(m, p)
                      ELSE MapSet(m, p, next)
             ELSE IF IsFinite(size)
             THEN IF size.v <= 0 THEN MapDelete(m, p) ELSE MapSet(m, p, size.v)
             ELSE m

RECURSIVE ApplyLevels(_, _)
ApplyLevels(m, lvls) ==
    IF lvls = <<>> THEN m
    ELSE ApplyLevels(ApplyLevel(m, Head(lvls)), Tail(lvls))

\* ApplyBookUpdate that clears the book on every update
ApplyBookUpdate_AlwaysClear(book, update) ==
    [bids |-> ApplyLevels(EmptyMap, update.bids),
     asks |-> ApplyLevels(EmptyMap, update.asks)]

\* ApplyBookUpdate without the clear of a snapshot
ApplyBookUpdate_NoClear(book, update) ==
    [bids |-> ApplyLevels(book.bids, update.bids),
     asks |-> ApplyLevels(book.asks, update.asks)]

\* the maps of the book after applyBookUpdateRef.current(update)
ApplyBookUpdate(book, update) ==
    LET cleared == IF update.snapshot THEN EmptyBook ELSE book
    IN  [bids |-> ApplyLevels(cleared.bids, update.bids),
         asks |-> ApplyLevels(cleared.asks, update.asks)]

SetMax(S) == CHOOSE x \in S : \A y \in S : y <= x
SetMin(S) == CHOOSE x \in S : \A y \in S : x <= y

RECURSIVE SortDesc(_)
SortDesc(S) == IF S = {} THEN <<>> ELSE <<SetMax(S)>> \o SortDesc(S \ {SetMax(S)})
RECURSIVE SortAsc(_)
SortAsc(S) == IF S = {} THEN <<>> ELSE <<SetMin(S)>> \o SortAsc(S \ {SetMin(S)})

Slice(s, n) == SubSeq(s, 1, Min(n, Len(s)))

\* entries of a side, sorted and cut to the first TopN
TopBids(m) ==
    LET keys == Slice(SortDesc(DOMAIN m), TopN)
    IN  [i \in 1..Len(keys) |-> [price |-> keys[i], size |-> m[keys[i]]]]
\* TopAsks with the comparator of the bids
TopAsks_Descending(m) ==
    LET keys == Slice(SortDesc(DOMAIN m), TopN)
    IN  [i \in 1..Len(keys) |-> [price |-> keys[i], size |-> m[keys[i]]]]

TopAsks(m) ==
    LET keys == Slice(SortAsc(DOMAIN m), TopN)
    IN  [i \in 1..Len(keys) |-> [price |-> keys[i], size |-> m[keys[i]]]]

\* OrderBookView: the rows it shows for the lists it is given (prices distinct)
PricesOf(levels) == {levels[i].price : i \in DOMAIN levels}
RowAt(levels, price) == levels[CHOOSE i \in DOMAIN levels : levels[i].price = price]
topBids(bids) ==
    LET keys == Slice(SortDesc(PricesOf(bids)), TopN)
    IN  [i \in 1..Len(keys) |-> RowAt(bids, keys[i])]
topAsks(asks) ==
    LET keys == Slice(SortAsc(PricesOf(asks)), TopN)
    IN  [i \in 1..Len(keys) |-> RowAt(asks, keys[i])]

----------------------------------------------------------------------------
(* Order-book frame parser (orderbook/parse.ts).                          *)
(* An object's optional property is a sequence of length 0 (absent) or 1. *)
(* A raw level or delta names its price and size by the first alias that  *)
(* is present (price ?? yes_price ?? p ?? level; size ?? quantity ?? ...). *)

\* String(x).trim().toLowerCase() on the strings the frames below carry
Lower(s) ==
    CASE s = "BID" -> "bid"
      [] s = " Ask " -> "ask"
      [] s = "YES" -> "yes"
      [] s = "Kalshi" -> "kalshi"
      [] s = "OrderBook" -> "orderbook"
      [] OTHER -> s

Level(price, size, delta) == [price |-> price, size |-> size, delta |-> delta]

NoBlock == [orderbook |-> <<>>, book |-> <<>>, bids |-> <<>>, asks |-> <<>>,
            deltas |-> <<>>, updates |-> <<>>, changes |-> <<>>, deltaArr |-> <<>>,
            price |-> Undef, delta |-> Undef, side |-> ""]
NoObj == [bids |-> <<>>, asks |-> <<>>]

\* raw.data, else raw.msg, else raw itself
getDataBlock(raw) ==
    IF raw.data # <<>> THEN raw.data[1]
    ELSE IF raw.msg # <<>> THEN raw.msg[1]
    ELSE raw.own

\* Level | null as a sequence of length 1 | 0
coerceLevelFromArray(it) ==
    IF it.form = "empty" THEN <<>>
    ELSE LET price == normProb(it.price)
             sizeVal == ToNumber(it.size)
             size == IF IsFinite(sizeVal) THEN sizeVal ELSE Undef
         IN  IF price = Null THEN <<>> ELSE <<Level(price, size, Undef)>>

coerceLevelFromObject(it) ==
    LET price == normProb(it.price)
        sizeVal == ToNumber(it.size)
        size == IF IsFinite(sizeVal) THEN sizeVal ELSE Undef
    IN  IF price = Null THEN <<>> ELSE <<Level(price, size, Undef)>>

\* parseSideValue that takes an unrecognized side for a bid
parseSideValue_FailOpen(u) ==
    IF u.is_bid # <<>> THEN (IF u.is_bid[1] THEN "bid" ELSE "ask")
    ELSE LET s == Lower(u.side) IN
         IF s \in {"ask", "sell", "s"} THEN "ask" ELSE "bid"

\* "bid" | "ask" | "" (null)
parseSideValue(u) ==
    IF u.is_bid # <<>> THEN (IF u.is_bid[1] THEN "bid" ELSE "ask")
    ELSE LET s == Lower(u.side) IN
         IF s = "" THEN ""
         ELSE IF s \in {"bid", "buy", "b"} THEN "bid"
         ELSE IF s \in {"ask", "sell", "s"} THEN "ask"
         ELSE ""

\* the levels trySnapshot pushes for one array of items
RECURSIVE SnapshotLevels(_)
SnapshotLevels(items) ==
    IF items = <<>> THEN <<>>
    ELSE LET it == Head(items)
             lvl == IF it.form \in {"array", "empty"} THEN coerceLevelFromArray(it)
                    ELSE IF it.form = "object" THEN coerceLevelFromObject(it)
                    ELSE <<>>
         IN  lvl \o SnapshotLevels(Tail(items))

\* the book object: data.orderbook, else data.book, else data
BookObject(data) ==
    IF data.orderbook # <<>> THEN data.orderbook[1]
    ELSE IF data.book # <<>> THEN data.book[1]
    ELSE [bids |-> data.bids, asks |-> data.asks]

\* the level the batched loop pushes for u, as <<side, level>>, or <<>>
UpdateLevel(u) ==
    IF u.form # "object" THEN <<>>
    ELSE LET side == parseSideValue(u)
             price == normProb(u.price)
             size0 == ToNumber(u.size)
             action == Lower(u.action)
             size == IF action \in {"delete", "remove"} THEN Num(0)
                     ELSE IF IsFinite(size0) THEN size0 ELSE NaN
         IN  IF price = Null \/ side = "" THEN <<>>
             ELSE <<[side |-> side,
                     lvl |-> Level(price, IF IsFinite(size) THEN size ELSE Undef, Undef)]>>

RECURSIVE UpdateLevels(_, _)
UpdateLevels(updates, side) ==
    IF updates = <<>> THEN <<>>
    ELSE LET r == UpdateLevel(Head(updates))
         IN  (IF r # <<>> /\ r[1].side = side THEN <<r[1].lvl>> ELSE <<>>)
                 \o UpdateLevels(Tail(updates), side)

\* first array-valued of deltas, updates, changes, delta; else []
UpdatesOf(data) ==
    IF data.deltas # <<>> THEN data.deltas[1]
    ELSE IF data.updates # <<>> THEN data.updates[1]
    ELSE IF data.changes # <<>> THEN data.changes[1]
    ELSE IF data.deltaArr # <<>> THEN data.deltaArr[1]
    ELSE <<>>

\* a default return that is marked as a snapshot
NoUpdate_Snapshot == [bids |-> <<>>, asks |-> <<>>, snapshot |-> TRUE]

NoUpdate == [bids |-> <<>>, asks |-> <<>>, snapshot |-> FALSE]

parseOrderbookLevels(vendor, raw) ==
    LET data == getDataBlock(raw)
        ob == BookObject(data)
        updates == UpdatesOf(data)
    IN  IF ob.bids # <<>> \/ ob.asks # <<>>
        THEN [bids |-> IF ob.bids # <<>> THEN SnapshotLevels(ob.bids[1]) ELSE <<>>,
              asks |-> IF ob.asks # <<>> THEN SnapshotLevels(ob.asks[1]) ELSE <<>>,
              snapshot |-> TRUE]
        ELSE IF Len(updates) > 0
        THEN [bids |-> UpdateLevels(updates, "bid"),
              asks |-> UpdateLevels(updates, "ask"),
              snapshot |-> FALSE]
        ELSE IF vendor = "kalshi" /\ data.price.k # "undef" /\ data.delta.k \in {"num", "nan"}
        THEN LET price == normProb(data.price)
                 deltaVal == ToNumber(data.delta)
                 sideRaw == Lower(data.side)
                 lvl == Level(price, Undef, deltaVal)
             IN  IF price # Null /\ IsFinite(deltaVal)
                 THEN IF sideRaw = "no"
                      THEN [bids |-> <<>>, asks |-> <<lvl>>, snapshot |-> FALSE]
                      ELSE [bids |-> <<lvl>>, asks |-> <<>>, snapshot |-> FALSE]
                 ELSE NoUpdate
        ELSE NoUpdate

----------------------------------------------------------------------------
(* Frames a server sends.  An envelope is the JSON text of one message:   *)
(* json = FALSE is text JSON.parse rejects.                               *)

ArrLvl(price, size) == [form |-> "array", price |-> price, size |-> size]
ObjLvl(price, size) == [form |-> "object", price |-> price, size |-> size]
RawDelta(side, price, size, action) ==
    [form |-> "object", is_bid |-> <<>>, side |-> side, price |-> price,
     size |-> size, action |-> action]
Own(block) == [data |-> <<>>, msg |-> <<>>, own |-> block]
Envelope(event, vendor, raw) ==
    [json |-> TRUE, event |-> event, vendor |-> vendor, hasData |-> TRUE, data |-> raw]

Frames == <<
    \* 1: not JSON
    [json |-> FALSE, event |-> "", vendor |-> "", hasData |-> FALSE, data |-> Own(NoBlock)],
    \* 2: a ticker event
    Envelope("ticker", "kalshi", Own(NoBlock)),
    \* 3: snapshot {orderbook: {bids: [[45, 2]], asks: [{price: 0.55, size: 1}]}}
    Envelope("OrderBook", "Kalshi",
        Own([NoBlock EXCEPT !.orderbook =
            <<[bids |-> << <<ArrLvl(Num(45 * Unit), Num(2))>> >>,
               asks |-> << <<ObjLvl(Num(55000), Num(1))>> >>]>>])),
    \* 4: batch {deltas: [{side: "BID", price: 0.45004, size: 3},
    \*                    {side: "sell", price: 0.55, action: "delete"}]}
    Envelope("orderbook", "polymarket",
        Own([NoBlock EXCEPT !.deltas =
            << <<RawDelta("BID", Num(45004), Num(3), ""),
                 RawDelta("sell", Num(55000), Undef, "delete")>> >>])),
    \* 5: Kalshi delta {msg: {side: "no", price: 55, delta: 1}}
    [Envelope("orderbook", "kalshi", Own(NoBlock)) EXCEPT !.data.msg =
        <<[NoBlock EXCEPT !.side = "no", !.price = Num(55 * Unit), !.delta = Num(1)]>>],
    \* 6: a snapshot of a vendor the modal does not know
    Envelope("orderbook", "other",
        Own([NoBlock EXCEPT !.bids = << <<ArrLvl(Num(45000), Num(2))>> >>]))
>>
FrameIds == 1..Len(Frames)

\* the condition of handleWsMessage under which a parsed envelope reaches the reconciler
IsBookFrame(env) ==
    /\ env.json
    /\ Lower(env.event) = "orderbook"
    /\ env.vendor # ""
    /\ env.hasData
    /\ Lower(env.vendor) \in {"kalshi", "polymarket"}

----------------------------------------------------------------------------
(* Browser WebSocket objects.  readyState is NONE before the object is    *)
(* constructed.  log lists the calls made on the object: the frames sent  *)
(* with send() and "close" for close().  opened says the open event has   *)
(* fired, recv counts the message events fired on the object.  While the  *)
(* socket is connecting or open, sub is the market of the subscribe       *)
(* payload its open listener holds (0: the payload of the DvWsPanel text  *)
(* box); it is 0 again once close() was called or the connection closed,  *)
(* when nothing is sent or received on the object any more.               *)

SocketIds == 1..MaxSockets
NoSocket == [readyState |-> "NONE", opened |-> FALSE, log |-> <<>>, recv |-> 0, sub |-> 0]
NewSocket == [NoSocket EXCEPT !.readyState = "CONNECTING"]
Live(sock) == sock.readyState \in {"CONNECTING", "OPEN"}

\* socket.send(frame)
Send(socks, s, frame) == [socks EXCEPT ![s].log = Append(@, frame)]

\* socket.close(): starts the closing handshake unless already closing or closed
Close(socks, s) ==
    [socks EXCEPT ![s].log = Append(@, "close"),
                  ![s].readyState = IF @ \in {"CONNECTING", "OPEN"} THEN "CLOSING" ELSE @,
                  ![s].sub = 0]

MsgsInModel == LET RECURSIVE Sum(_)
                   Sum(i) == IF i = 0 THEN 0
                             ELSE sockets[i].recv + Sum(i - 1)
               IN  Sum(MaxSockets)

----------------------------------------------------------------------------
(* GraphModal.  The handlers are functions of the record G of the refs,   *)
(* the React state and the sockets; an action commits the record.         *)

Markets == {1, 2}       \* markets a Graph button shows; 0 is no market (modal closed)

G == [sockets |-> sockets, nSockets |-> nSockets,
      wsRef |-> wsRef, wsStateRef |-> wsStateRef, wsState |-> wsState,
      wsMessageCountRef |-> wsMessageCountRef, wsEventCount |-> wsEventCount,
      wsLastEventRef |-> wsLastEventRef, wsLastEvent |-> wsLastEvent,
      wsHistoryIdRef |-> wsHistoryIdRef, wsError |-> wsError,
      bookRef |-> bookRef, obBids |-> obBids, obAsks |-> obAsks]

Commit(g) ==
    /\ sockets' = g.sockets
    /\ nSockets' = g.nSockets
    /\ wsRef' = g.wsRef
    /\ wsStateRef' = g.wsStateRef
    /\ wsState' = g.wsState
    /\ wsMessageCountRef' = g.wsMessageCountRef
    /\ wsEventCount' = g.wsEventCount
    /\ wsLastEventRef' = g.wsLastEventRef
    /\ wsLastEvent' = g.wsLastEvent
    /\ wsHistoryIdRef' = g.wsHistoryIdRef
    /\ wsError' = g.wsError
    /\ bookRef' = g.bookRef
    /\ obBids' = g.obBids
    /\ obAsks' = g.obAsks

\* the identifier fields of a market, in the order wsPayload assigns them
Identifiers == <<"ticker", "market_id", "vendor_market_id", "slug">>

\* the market objects GraphModal is opened on: provider and identifiers absent,
\* empty, blank or given
MarketObjects ==
    [provider : {Null, EmptyStr, Str},
     ticker : {Null, EmptyStr, Blank, Str}, market_id : {Null, EmptyStr, Blank, Str},
     vendor_market_id : {Null, EmptyStr, Blank, Str}, slug : {Null, EmptyStr, Blank, Str}]

\* the market of the search results: a provider and a ticker
TheMarket ==
    [provider |-> Str, ticker |-> Str, market_id |-> Null, vendor_market_id |-> Null,
     slug |-> Null]

\* m[key] = value
Assigned(m, key, value) == [k \in DOMAIN m \cup {key} |-> IF k = key THEN value ELSE m[k]]

\* assign that also keeps strings that trim to ""
assign_KeepsBlank(m, key, value) ==
    IF value.k \in {"null", "undef"} THEN m ELSE Assigned(m, key, value)

\* assign(key, value) inside wsPayload
assign(m, key, value) ==
    IF value.k \in {"null", "undef"} THEN m
    ELSE IF value.k \in {"emptystr", "blank"} THEN m
    ELSE Assigned(m, key, value)

RECURSIVE AssignAll(_, _, _)
AssignAll(m, mk, i) ==
    IF i > Len(Identifiers) THEN m
    ELSE AssignAll(assign(m, Identifiers[i], mk[Identifiers[i]]), mk, i + 1)

\* wsPayload of the market object mk (Null for null)
wsPayload(mk) ==
    IF mk.provider.k \in {"null", "undef", "emptystr"} THEN Null
    ELSE LET m == AssignAll([k \in {"provider"} |-> mk.provider], mk, 1)
         IN  IF Cardinality(DOMAIN m) <= 1 THEN Null
             ELSE [type |-> "subscribe", provider |-> mk.provider, market |-> m]

\* the object behind the market prop m (0 = no market)
MarketOf(m) == marketFields

\* wsPayload is not null for the market prop m
HasWsPayload(m) == m # 0 /\ wsPayload(MarketOf(m)) # Null

resetWsState(g) ==
    [g EXCEPT !.wsMessageCountRef = 0, !.wsLastEventRef = 0, !.wsError = "",
              !.wsEventCount = 0, !.wsLastEvent = 0, !.wsHistoryIdRef = 0]

\* disconnectWs that also empties the book
disconnectWs_ClearsBook(g) ==
    IF g.wsRef = 0 THEN g
    ELSE LET s == g.wsRef
             sent == IF g.sockets[s].readyState = "OPEN"
                     THEN Send(g.sockets, s, "unsubscribe") ELSE g.sockets
         IN  [g EXCEPT !.sockets = Close(sent, s), !.wsRef = 0,
                       !.wsStateRef = "disconnected", !.wsState = "disconnected",
                       !.bookRef = IF @ = <<>> THEN @ ELSE <<EmptyBook>>,
                       !.obBids = <<>>, !.obAsks = <<>>]

disconnectWs(g) ==
    IF g.wsRef = 0 THEN g
    ELSE LET s == g.wsRef
             sent == IF g.sockets[s].readyState = "OPEN"
                     THEN Send(g.sockets, s, "unsubscribe") ELSE g.sockets
         IN  [g EXCEPT !.sockets = Close(sent, s), !.wsRef = 0,
                       !.wsStateRef = "disconnected", !.wsState = "disconnected"]

\* applyBookUpdateRef.current(update): the maps, then the top of book for display
applyBookUpdateRef(g, update) ==
    IF g.bookRef = <<>> THEN g
    ELSE LET book == ApplyBookUpdate(g.bookRef[1], update)
         IN  [g EXCEPT !.bookRef = <<book>>,
                       !.obBids = TopBids(book.bids), !.obAsks = TopAsks(book.asks)]

\* handleWsMessage that disconnects when the frame is not JSON
handleWsMessage_FailCloses(g, f) ==
    LET env == Frames[f]
        counted == [g EXCEPT !.wsMessageCountRef = @ + 1,
                             !.wsEventCount = g.wsMessageCountRef + 1]
    IN  IF ~env.json
        THEN disconnectWs([counted EXCEPT !.wsError = "Failed to parse websocket event"])
        ELSE LET seen == [counted EXCEPT !.wsLastEventRef = f, !.wsLastEvent = f]
             IN  IF IsBookFrame(env)
                 THEN applyBookUpdateRef(seen,
                          parseOrderbookLevels(Lower(env.vendor), env.data))
                 ELSE seen

\* handleWsMessage with the reconciler run twice on an orderbook frame
handleWsMessage_Twice(g, f) ==
    LET env == Frames[f]
        counted == [g EXCEPT !.wsMessageCountRef = @ + 1,
                             !.wsEventCount = g.wsMessageCountRef + 1]
    IN  IF ~env.json THEN [counted EXCEPT !.wsError = "Failed to parse websocket event"]
        ELSE LET seen == [counted EXCEPT !.wsLastEventRef = f, !.wsLastEvent = f]
                 levels == parseOrderbookLevels(Lower(env.vendor), env.data)
             IN  IF IsBookFrame(env)
                 THEN applyBookUpdateRef(applyBookUpdateRef(seen, levels), levels)
                 ELSE seen

\* the message listener, for the frame Frames[f]
handleWsMessage(g, f) ==
    LET env == Frames[f]
        counted == [g EXCEPT !.wsMessageCountRef = @ + 1,
                             !.wsEventCount = g.wsMessageCountRef + 1]
    IN  IF ~env.json THEN [counted EXCEPT !.wsError = "Failed to parse websocket event"]
        ELSE LET seen == [counted EXCEPT !.wsLastEventRef = f, !.wsLastEvent = f]
             IN  IF IsBookFrame(env)
                 THEN applyBookUpdateRef(seen,
                          parseOrderbookLevels(Lower(env.vendor), env.data))
                 ELSE seen

\* connectWs, past its guard; ok = the WebSocket constructor does not throw
connectWs(g, ok) ==
    LET r == resetWsState(g)
        s == g.nSockets + 1
    IN  IF ok
        THEN [r EXCEPT !.sockets[s] = [NewSocket EXCEPT !.sub = market],
                       !.nSockets = s, !.wsRef = s,
                       !.wsStateRef = "connecting", !.wsState = "connecting"]
        ELSE resetWsState([r EXCEPT !.wsStateRef = "disconnected",
                                    !.wsState = "disconnected",
                                    !.wsError = "Failed to open websocket"])

\* onOpen that sends no subscribe frame
onOpen_NoSubscribe(g, s) ==
    [g EXCEPT !.wsStateRef = "connected", !.wsState = "connected", !.wsHistoryIdRef = s]

\* the open listener of socket s
onOpen(g, s) ==
    [g EXCEPT !.wsStateRef = "connected", !.wsState = "connected",
              !.sockets = Send(@, s, "subscribe"), !.wsHistoryIdRef = s]

\* the error listener
onError(g) == [g EXCEPT !.wsError = "WebSocket error"]

\* the close listener
onClose(g) ==
    resetWsState([g EXCEPT !.wsRef = 0, !.wsStateRef = "disconnected",
                           !.wsState = "disconnected"])

\* the effects whose dependencies are open and market, for the props (o, m)
propsEffects(g, o, m) ==
    LET a == IF o # open /\ ~o
             THEN (IF g.wsRef # 0 THEN disconnectWs(g) ELSE resetWsState(g))
             ELSE g
        b == IF m # market
             THEN (IF a.wsStateRef # "disconnected" THEN disconnectWs(a)
                   ELSE resetWsState(a))
             ELSE a
    IN  IF o
        THEN [b EXCEPT !.bookRef = <<EmptyBook>>, !.obBids = <<>>, !.obAsks = <<>>]
        ELSE [b EXCEPT !.bookRef = <<>>]

\* the cleanups run when the component unmounts
unmountCleanup(g) ==
    LET a == IF g.wsRef # 0 THEN disconnectWs(g) ELSE resetWsState(g)
    IN  [a EXCEPT !.bookRef = <<>>]

\* the beforeunload listener
onBeforeUnload(g) ==
    IF g.wsRef # 0 /\ g.sockets[g.wsRef].readyState = "OPEN"
    THEN [g EXCEPT !.sockets = Send(@, g.wsRef, "unsubscribe")]
    ELSE g

Others == UNCHANGED <<component, wsUrlOk, panelVars, harnessVars, normVars, extVars>>
GMOthers == /\ Others
            /\ UNCHANGED <<page, open, market>>
            /\ component = "GraphModal"

\* EventCard sets or clears its graph: the modal's open and market props change
SetGraph(m) ==
    /\ page = "mounted"
    /\ m # market
    /\ component = "GraphModal"
    /\ Commit(propsEffects(G, m # 0, m))
    /\ open' = (m # 0)
    /\ market' = m
    /\ stopped' = (stopped \cup {wsRef}) \ {0}
    /\ applied' = <<>>
    /\ UNCHANGED page
    /\ Others

StartLive ==
    /\ page = "mounted" /\ open
    /\ wsState = "disconnected" /\ wsStateRef = "disconnected"
    /\ HasWsPayload(market)
    /\ wsUrlOk => nSockets < MaxSockets
    /\ Commit(connectWs(G, wsUrlOk))
    /\ UNCHANGED <<stopped, applied>>
    /\ GMOthers

StopLive ==
    /\ page = "mounted" /\ open
    /\ wsState # "disconnected"
    /\ Commit(disconnectWs(G))
    /\ stopped' = (stopped \cup {wsRef}) \ {0}
    /\ UNCHANGED applied
    /\ GMOthers

Unmount ==
    /\ page = "mounted"
    /\ component = "GraphModal"
    /\ Commit(unmountCleanup(G))
    /\ page' = "unmounted"
    /\ stopped' = (stopped \cup {wsRef}) \ {0}
    /\ applied' = <<>>
    /\ UNCHANGED <<open, market>>
    /\ Others

\* the page is left: the listener runs and the page's scripts end
BeforeUnload ==
    /\ page = "mounted" /\ open
    /\ component = "GraphModal"
    /\ Commit(onBeforeUnload(G))
    /\ page' = "unloaded"
    /\ UNCHANGED <<open, market, stopped, applied>>
    /\ Others

\* the connection of socket s is established: readyState OPEN, then the open event
SocketOpen(s) ==
    /\ page # "unloaded"
    /\ sockets[s].readyState = "CONNECTING"
    /\ Commit(onOpen([G EXCEPT !.sockets[s].readyState = "OPEN",
                               !.sockets[s].opened = TRUE], s))
    /\ UNCHANGED <<stopped, applied>>
    /\ GMOthers

\* a message arrives on socket s: the message event fires only while OPEN
SocketMessage(s, f) ==
    /\ page # "unloaded"
    /\ sockets[s].readyState = "OPEN"
    /\ MsgsInModel < MaxMsgs
    /\ Commit(handleWsMessage([G EXCEPT !.sockets[s].recv = @ + 1], f))
    /\ applied' = IF IsBookFrame(Frames[f]) /\ bookRef # <<>>
                  THEN Append(applied, f) ELSE applied
    /\ UNCHANGED stopped
    /\ GMOthers

\* the connection of socket s is closed (by the handshake close() started, by
\* the server or by a failure): readyState CLOSED, then the error event when the
\* connection failed (always so when it never opened), then the close event, in
\* one task
SocketClose(s, failed) ==
    /\ page # "unloaded"
    /\ sockets[s].readyState \in {"CONNECTING", "OPEN", "CLOSING"}
    /\ ~sockets[s].opened => failed
    /\ LET g0 == [G EXCEPT !.sockets[s].readyState = "CLOSED", !.sockets[s].sub = 0]
       IN  Commit(onClose(IF failed THEN onError(g0) ELSE g0))
    /\ UNCHANGED <<stopped, applied>>
    /\ GMOthers

NoNorm == [arg |-> Undef, runs |-> <<>>]

\* an array value, and the EventCard and the parser harness before they are used
Arr(items) == [k |-> "arr", items |-> items]
NoCard ==
    [mounted |-> FALSE, totalCount |-> Undef, initialMarkets |-> Undef,
     expanded |-> FALSE, loading |-> FALSE, error |-> Null, markets |-> Null,
     fetching |-> 0, issued |-> 0]
NoParse == [vendor |-> "", raw |-> Null, out |-> <<>>]
NoLine == [points |-> Undef, out |-> <<>>, called |-> FALSE]
\* HistoryProvider before it mounts, over an empty store
NoHist ==
    [mounted |-> FALSE, entries |-> <<>>, initRef |-> FALSE, pendingUpdatesRef |-> {},
     flushTimer |-> FALSE, load |-> "idle", loaded |-> <<>>,
     store |-> {}, saving |-> {}, clearing |-> 0,
     now |-> 0, returned |-> 0, adds |-> 0, updates |-> 0, clears |-> 0,
     touched |-> {}, stale |-> {}]
\* SearchPage before it mounts: the initial React state and refs
NoSearch ==
    [mounted |-> FALSE, q |-> "", limit |-> 10,
     loading |-> FALSE, error |-> 0, sections |-> 0,
     lastSearchParamsRef |-> <<>>, debounceRef |-> 0,
     timers |-> {}, nTimers |-> 0, requests |-> <<>>, inflight |-> {},
     logged |-> {}, runs |-> 0]

BaseInitOn(book, objects) ==
    /\ wsUrlOk \in BOOLEAN
    /\ sockets = [s \in SocketIds |-> NoSocket]
    /\ nSockets = 0
    /\ page = "mounted" /\ open = FALSE /\ market = 0
    /\ wsRef = 0 /\ wsStateRef = "disconnected" /\ wsState = "disconnected"
    /\ wsMessageCountRef = 0 /\ wsEventCount = 0
    /\ wsLastEventRef = 0 /\ wsLastEvent = 0
    /\ wsHistoryIdRef = 0 /\ wsError = ""
    /\ bookRef = book /\ obBids = <<>> /\ obAsks = <<>>
    /\ panelOpen = FALSE /\ payload = "subscribe"
    /\ state = "disconnected" /\ stateRef = "disconnected"
    /\ messageCountRef = 0 /\ lastEvent = 0 /\ lastEventRef = 0
    /\ historyEntryId = 0 /\ error = ""
    /\ pending = <<>> /\ before = <<>>
    /\ norm = NoNorm
    /\ marketFields \in objects
    /\ card = NoCard /\ parsed = NoParse /\ search = NoSearch /\ hist = NoHist
    /\ line = NoLine
    /\ applied = <<>> /\ stopped = {}

BaseInit(book) == BaseInitOn(book, {TheMarket})

GMInit == component = "GraphModal" /\ BaseInit(<<>>)

GMNext ==
    \/ \E m \in Markets \cup {0} : SetGraph(m)
    \/ StartLive
    \/ StopLive
    \/ Unmount
    \/ BeforeUnload
    \/ \E s \in SocketIds : SocketOpen(s)
    \/ \E s \in SocketIds, f \in FrameIds : SocketMessage(s, f)
    \/ \E s \in SocketIds, failed \in BOOLEAN : SocketClose(s, failed)

SpecGM == GMInit /\ [][GMNext]_vars

\* GraphModal with the network making progress: a connection attempt ends (it
\* opens or fails) and a closing handshake completes; the user and the server
\* owe no step.
LiveNext ==
    \/ \E m \in Markets \cup {0} : SetGraph(m)
    \/ StartLive
    \/ StopLive
    \/ Unmount
    \/ \E s \in SocketIds : SocketOpen(s)
    \/ \E s \in SocketIds, failed \in BOOLEAN : SocketClose(s, failed)

\* the connection attempt or the closing handshake of socket s ends
Settle(s) ==
    /\ sockets[s].readyState \in {"CONNECTING", "CLOSING"}
    /\ \/ SocketOpen(s)
       \/ \E failed \in BOOLEAN : SocketClose(s, failed)

SpecLive ==
    GMInit /\ [][LiveNext]_vars /\ \A s \in SocketIds : WF_vars(Settle(s))

\* GraphModal opened on any of the market objects, Start Live and Stop Live clicked
SubscribeInit == component = "GraphModal" /\ BaseInitOn(<<>>, MarketObjects) /\ wsUrlOk

SubscribeNext ==
    \/ \E m \in {0, 1} : SetGraph(m)
    \/ StartLive
    \/ StopLive
    \/ \E s \in SocketIds : SocketOpen(s)

SpecSubscribe == SubscribeInit /\ [][SubscribeNext]_vars

----------------------------------------------------------------------------
(* DvWsPanel.  Same shape: handlers on the record P, actions commit it.   *)

Payloads == {"subscribe", "not subscribe", "not json"}   \* texts of the payload box

P == [sockets |-> sockets, nSockets |-> nSockets, wsRef |-> wsRef,
      state |-> state, stateRef |-> stateRef, messageCountRef |-> messageCountRef,
      lastEvent |-> lastEvent, lastEventRef |-> lastEventRef,
      historyEntryId |-> historyEntryId, error |-> error]

PanelCommit(q) ==
    /\ sockets' = q.sockets
    /\ nSockets' = q.nSockets
    /\ wsRef' = q.wsRef
    /\ state' = q.state
    /\ stateRef' = q.stateRef
    /\ messageCountRef' = q.messageCountRef
    /\ lastEvent' = q.lastEvent
    /\ lastEventRef' = q.lastEventRef
    /\ historyEntryId' = q.historyEntryId
    /\ error' = q.error

reset(q) ==
    [q EXCEPT !.messageCountRef = 0, !.lastEvent = 0, !.lastEventRef = 0,
              !.error = "", !.historyEntryId = 0]

closeSocket(q, sendUnsubscribe) ==
    IF q.wsRef = 0 THEN q
    ELSE LET s == q.wsRef
             sent == IF sendUnsubscribe /\ q.sockets[s].readyState = "OPEN"
                     THEN Send(q.sockets, s, "unsubscribe") ELSE q.sockets
         IN  [q EXCEPT !.sockets = Close(sent, s), !.wsRef = 0]

disconnect(q) ==
    [closeSocket(q, TRUE) EXCEPT !.stateRef = "disconnected", !.state = "disconnected"]

handleMessage(q, f) ==
    LET counted == [q EXCEPT !.messageCountRef = @ + 1]
    IN  IF ~Frames[f].json THEN [counted EXCEPT !.error = "Failed to parse event"]
        ELSE [counted EXCEPT !.lastEventRef = f, !.lastEvent = f]

\* connect that does not look at the payload
connect_NoValidation(q, pl, ok) ==
    IF q.state = "connecting" \/ q.state = "connected" THEN q
    ELSE LET c == [q EXCEPT !.error = "", !.state = "connecting",
                            !.stateRef = "connecting", !.messageCountRef = 0,
                            !.lastEvent = 0]
             s == q.nSockets + 1
         IN  IF ok /\ s <= MaxSockets
             THEN [c EXCEPT !.sockets[s] = NewSocket, !.nSockets = s, !.wsRef = s]
             ELSE reset([c EXCEPT !.state = "disconnected", !.stateRef = "disconnected",
                                  !.error = "Failed to open websocket"])

\* connect, for the payload text pl; ok = the WebSocket constructor does not throw
connect(q, pl, ok) ==
    IF q.state = "connecting" \/ q.state = "connected" THEN q
    ELSE IF pl = "not json" THEN [q EXCEPT !.error = "Payload must be valid JSON"]
    ELSE IF pl # "subscribe"
    THEN [q EXCEPT !.error = "Payload must be a subscribe message object"]
    ELSE LET c == [q EXCEPT !.error = "", !.state = "connecting",
                            !.stateRef = "connecting", !.messageCountRef = 0,
                            !.lastEvent = 0]
             s == q.nSockets + 1
         IN  IF ok
             THEN [c EXCEPT !.sockets[s] = NewSocket, !.nSockets = s, !.wsRef = s]
             ELSE reset([c EXCEPT !.state = "disconnected", !.stateRef = "disconnected",
                                  !.error = "Failed to open websocket"])

panelOnOpen(q, s) ==
    [q EXCEPT !.state = "connected", !.stateRef = "connected",
              !.sockets = Send(@, s, "subscribe"), !.historyEntryId = s]

panelOnClose(q) ==
    [q EXCEPT !.wsRef = 0, !.stateRef = "disconnected", !.state = "disconnected"]

panelOnError(q) == [q EXCEPT !.error = "WebSocket error"]

PanelOthers ==
    /\ component = "DvWsPanel"
    /\ UNCHANGED <<component, wsUrlOk, gmVars, bookVars, harnessVars, normVars, extVars,
                   applied>>

TogglePanel ==
    /\ page = "mounted"
    /\ panelOpen' = ~panelOpen
    /\ UNCHANGED <<sockVars, payload, state, stateRef, messageCountRef, lastEvent,
                   lastEventRef, historyEntryId, error, stopped>>
    /\ PanelOthers

\* the payload box is enabled while disconnected
EditPayload(pl) ==
    /\ page = "mounted" /\ panelOpen
    /\ state = "disconnected"
    /\ pl # payload
    /\ payload' = pl
    /\ UNCHANGED <<sockVars, panelOpen, state, stateRef, messageCountRef, lastEvent,
                   lastEventRef, historyEntryId, error, stopped>>
    /\ PanelOthers

Connect ==
    /\ page = "mounted" /\ panelOpen
    /\ state = "disconnected"
    /\ (payload = "subscribe" /\ wsUrlOk) => nSockets < MaxSockets
    /\ PanelCommit(connect(P, payload, wsUrlOk))
    /\ UNCHANGED <<page, panelOpen, payload, stopped>>
    /\ PanelOthers

Disconnect ==
    /\ page = "mounted" /\ panelOpen
    /\ state \in {"connected", "connecting"}
    /\ PanelCommit(reset(disconnect(P)))
    /\ stopped' = (stopped \cup {wsRef}) \ {0}
    /\ UNCHANGED <<page, panelOpen, payload>>
    /\ PanelOthers

PanelUnmount ==
    /\ page = "mounted"
    /\ PanelCommit(closeSocket(P, FALSE))
    /\ page' = "unmounted"
    /\ UNCHANGED <<panelOpen, payload, stopped>>
    /\ PanelOthers

PanelSocketOpen(s) ==
    /\ sockets[s].readyState = "CONNECTING"
    /\ PanelCommit(panelOnOpen([P EXCEPT !.sockets[s].readyState = "OPEN",
                                         !.sockets[s].opened = TRUE], s))
    /\ UNCHANGED <<page, panelOpen, payload, stopped>>
    /\ PanelOthers

PanelSocketMessage(s, f) ==
    /\ sockets[s].readyState = "OPEN"
    /\ MsgsInModel < MaxMsgs
    /\ PanelCommit(handleMessage([P EXCEPT !.sockets[s].recv = @ + 1], f))
    /\ UNCHANGED <<page, panelOpen, payload, stopped>>
    /\ PanelOthers

PanelSocketClose(s, failed) ==
    /\ sockets[s].readyState \in {"CONNECTING", "OPEN", "CLOSING"}
    /\ ~sockets[s].opened => failed
    /\ LET q0 == [P EXCEPT !.sockets[s].readyState = "CLOSED"]
       IN  PanelCommit(panelOnClose(IF failed THEN panelOnError(q0) ELSE q0))
    /\ UNCHANGED <<page, panelOpen, payload, stopped>>
    /\ PanelOthers

PanelInit == component = "DvWsPanel" /\ BaseInit(<<>>)

\* the panel shows an event as it is: text that is not JSON, a ticker event and
\* an orderbook event are sent to it
PanelFrameIds == 1..3

PanelNext ==
    \/ TogglePanel
    \/ \E pl \in Payloads : EditPayload(pl)
    \/ Connect
    \/ Disconnect
    \/ PanelUnmount
    \/ \E s \in SocketIds : PanelSocketOpen(s)
    \/ \E s \in SocketIds, f \in PanelFrameIds : PanelSocketMessage(s, f)
    \/ \E s \in SocketIds, failed \in BOOLEAN : PanelSocketClose(s, failed)

SpecPanel == PanelInit /\ [][PanelNext]_vars

----------------------------------------------------------------------------
(* The two clients.  They share no state, so a behaviour follows one of   *)
(* them: component says which.                                            *)

Init == GMInit \/ PanelInit
Next ==
    \/ component = "GraphModal" /\ GMNext
    \/ component = "DvWsPanel" /\ PanelNext
Spec == Init /\ [][Next]_vars

----------------------------------------------------------------------------
(* Reconciler harness: the book of an open modal is given updates one at  *)
(* a time.  Receive picks the update, ApplyUpdate runs applyBookUpdateRef *)
(* on it and keeps the book it started from, Done forgets both.           *)

\* levels of a snapshot: a size or none, never a delta (trySnapshot)
SnapshotLevelSet ==
    { Level(Num(45000), Num(2), Undef),     \* 0.45 x 2
      Level(Num(45004), Num(0), Undef),     \* 0.45004 x 0: the key of 0.45
      Level(Num(50000), Num(1), Undef),     \* 0.5 x 1
      Level(Num(50000), Undef, Undef),      \* 0.5, no size
      Level(NaN, Num(2), Undef) }           \* no finite price
\* levels of other updates: also relative deltas
LevelSet ==
    {lvl \in SnapshotLevelSet : IsFinite(lvl.price) /\ IsFinite(lvl.size)} \cup
    { Level(Num(45000), Undef, Num(-2)),
      Level(Num(45000), Undef, Num(0)),
      Level(Num(45000), Undef, Num(1)) }

SeqsOf(S, n) == UNION {[1..k -> S] : k \in 0..n}

\* updates of at most MaxLevels levels over the level set S
UpdatesOver(S, snap) ==
    UNION {{[bids |-> b, asks |-> a, snapshot |-> snap] :
                b \in [1..k -> S], a \in SeqsOf(S, MaxLevels - k)} : k \in 0..MaxLevels}

Updates == UpdatesOver(SnapshotLevelSet, TRUE) \cup UpdatesOver(LevelSet, FALSE)

SizesWithin(m, n) == \A key \in DOMAIN m : m[key] <= n

BookOthers ==
    /\ component = "Reconciler"
    /\ UNCHANGED <<component, wsUrlOk, sockVars, gmVars, panelVars, normVars, extVars,
                   obsVars>>

Receive(u) ==
    /\ pending = <<>>
    /\ LET b == ApplyBookUpdate(bookRef[1], u)
       IN  SizesWithin(b.bids, MaxSize) /\ SizesWithin(b.asks, MaxSize)
    /\ pending' = <<u>>
    /\ UNCHANGED <<before, bookVars>>
    /\ BookOthers

ApplyUpdate ==
    /\ pending # <<>> /\ before = <<>>
    /\ LET g == applyBookUpdateRef(G, pending[1])
       IN  /\ bookRef' = g.bookRef
           /\ obBids' = g.obBids
           /\ obAsks' = g.obAsks
    /\ before' = bookRef
    /\ UNCHANGED pending
    /\ BookOthers

Done ==
    /\ before # <<>>
    /\ pending' = <<>> /\ before' = <<>>
    /\ UNCHANGED bookVars
    /\ BookOthers

BookInit ==
    /\ component = "Reconciler"
    /\ BaseInit(<<EmptyBook>>)
    /\ wsUrlOk

BookNext ==
    \/ \E u \in Updates : Receive(u)
    \/ ApplyUpdate
    \/ Done

SpecBook == BookInit /\ [][BookNext]_vars

----------------------------------------------------------------------------
(* Parser.  One payload is handed to parseOrderbookLevels, and its result  *)
(* to the reconciler of an empty book, as handleWsMessage does.            *)

MaxItems == 2       \* longest bids, asks or deltas array of a payload

\* prices of raw records: 0.45, 0.55, a text, missing, null, the empty string
RawPrices == {Num(45000), Num(55000), Str, Undef, Null, EmptyStr}

ListsOf(S, n) == UNION {[1..k -> S] : k \in 1..n}

\* items of a bids or asks array: [price, size], {price, size}, [] and a number
SnapshotItems ==
    {ArrLvl(p, Num(2)) : p \in RawPrices} \cup {ObjLvl(p, Num(1)) : p \in RawPrices}
        \cup {[ArrLvl(Undef, Undef) EXCEPT !.form = "empty"],
              [ArrLvl(Undef, Undef) EXCEPT !.form = "other"]}

\* items of a deltas array: {side, price, size} and a number
BatchItems ==
    {RawDelta(side, p, Num(3), "") : side \in {"BID", "sell", "maybe", ""}, p \in RawPrices}
        \cup {[RawDelta("BID", Num(45000), Num(3), "") EXCEPT !.form = "other"]}

SnapshotPayloads ==
    {Own([NoBlock EXCEPT !.bids = <<b>>]) : b \in ListsOf(SnapshotItems, MaxItems)}
        \cup {Own([NoBlock EXCEPT !.asks = <<a>>]) : a \in ListsOf(SnapshotItems, MaxItems)}
BatchPayloads ==
    {Own([NoBlock EXCEPT !.deltas = <<u>>]) : u \in ListsOf(BatchItems, MaxItems)}
            \cup {Own([NoBlock EXCEPT !.deltas = << <<>> >>])}
\* {side, price, delta}, each field present or not; {} among them
SinglePayloads ==
    {Own([NoBlock EXCEPT !.side = side, !.price = p, !.delta = d]) :
        side \in {"YES", "no", "sell", "maybe", ""}, p \in RawPrices,
        d \in {Num(1), NumStr(1), NaN, Undef}}
\* book objects under data.orderbook and data.book, with and without arrays, next
\* to bids or deltas of the data block itself; an empty bids array
NestedPayloads ==
    {Own([NoBlock EXCEPT ![key] = <<[bids |-> b, asks |-> a]>>, !.bids = own, !.deltas = d]) :
        key \in {"orderbook", "book"},
        b \in {<<>>, << <<ObjLvl(Num(45000), Num(1))>> >>},
        a \in {<<>>, << <<ArrLvl(Num(55000), Num(2))>> >>},
        own \in {<<>>, << <<ArrLvl(Num(45000), Num(2))>> >>},
        d \in {<<>>, << <<RawDelta("BID", Num(45000), Num(3), "")>> >>}}
        \cup {Own([NoBlock EXCEPT !.bids = << <<>> >>])}
ParserPayloads == SnapshotPayloads \cup BatchPayloads \cup SinglePayloads \cup NestedPayloads

ParseOthers ==
    /\ component = "Parser"
    /\ UNCHANGED <<component, wsUrlOk, sockVars, gmVars, panelVars, pending, normVars,
                   marketFields, card, obsVars, search, hist, line>>

\* the book of the modal already holds a bid and an ask when the frame arrives
SeedBook ==
    /\ parsed = NoParse /\ bookRef = <<EmptyBook>>
    /\ LET g == applyBookUpdateRef(G,
                    [bids |-> <<Level(Num(60000), Num(1), Undef)>>,
                     asks |-> <<Level(Num(70000), Num(1), Undef)>>, snapshot |-> TRUE])
       IN  /\ bookRef' = g.bookRef
           /\ obBids' = g.obBids
           /\ obAsks' = g.obAsks
    /\ UNCHANGED <<before, parsed>>
    /\ ParseOthers

\* parseOrderbookLevels(vendor, raw) is called
Parse(vendor, raw) ==
    /\ parsed = NoParse
    /\ parsed' = [vendor |-> vendor, raw |-> raw,
                  out |-> <<parseOrderbookLevels(vendor, raw)>>]
    /\ UNCHANGED <<before, bookVars>>
    /\ ParseOthers

\* its result is handed to applyBookUpdateRef.current
ApplyParsed ==
    /\ parsed.out # <<>> /\ before = <<>>
    /\ LET g == applyBookUpdateRef(G, parsed.out[1])
       IN  /\ bookRef' = g.bookRef
           /\ obBids' = g.obBids
           /\ obAsks' = g.obAsks
    /\ before' = bookRef
    /\ UNCHANGED parsed
    /\ ParseOthers

ParseInit ==
    /\ component = "Parser"
    /\ BaseInit(<<EmptyBook>>)
    /\ wsUrlOk

ParseNext ==
    \/ SeedBook
    \/ /\ parsed = NoParse
       /\ \E vendor \in {"kalshi", "polymarket"}, raw \in ParserPayloads : Parse(vendor, raw)
    \/ ApplyParsed

SpecParse == ParseInit /\ [][ParseNext]_vars

----------------------------------------------------------------------------
(* Top of book.  A book of up to MaxTopKeys prices per side, more than    *)
(* the lists show: each step applies one update that sets or deletes the  *)
(* bid at a price and the ask at the complementary price.                 *)

TopPrices == {i * (Unit \div 20) : i \in 1..MaxTopKeys}

TopUpdate(price, size) ==
    /\ component = "TopOfBook"
    /\ Commit(applyBookUpdateRef(G,
           [bids |-> <<Level(Num(price), Num(size), Undef)>>,
            asks |-> <<Level(Num(Unit - price), Num(size), Undef)>>,
            snapshot |-> FALSE]))
    /\ UNCHANGED <<component, wsUrlOk, page, open, market, panelVars, obsVars,
                   harnessVars, normVars, extVars>>

TopInit ==
    /\ component = "TopOfBook"
    /\ BaseInit(<<EmptyBook>>)
    /\ wsUrlOk

TopNext == \E price \in TopPrices, size \in 0..1 : TopUpdate(price, size)

SpecTop == TopInit /\ [][TopNext]_vars

----------------------------------------------------------------------------
(* EventCard.  The card mounts with its props; a click on the header runs  *)
(* onToggle up to its await; the response of the fetch runs the rest.      *)

MaxMarkets == 2     \* longest markets list, of the props and of the server
MaxFetches == 2     \* fetches issued by one card

\* n markets of the list that came with the search results / from /api/event
MarketList(from, n) == [i \in 1..n |-> [from |-> from, i |-> i]]

\* haveAllInitial that does not compare with totalCount
haveAllInitial_AnyInitial(c) ==
    LET initLen == IF c.initialMarkets.k = "arr" THEN Len(c.initialMarkets.items) ELSE 0
    IN  initLen > 0

haveAllInitial(c) ==
    LET initLen == IF c.initialMarkets.k = "arr" THEN Len(c.initialMarkets.items) ELSE 0
        total == IF c.totalCount.k = "num" THEN c.totalCount.v ELSE initLen
    IN  initLen > 0 /\ initLen >= total

\* initialMarkets ?? []
InitialOrEmpty(c) == IF c.initialMarkets.k = "arr" THEN c.initialMarkets.items ELSE <<>>

\* onToggle up to the await of fetch
onToggle(c) ==
    LET next == ~c.expanded
        c1 == [c EXCEPT !.expanded = next]
    IN  IF ~next THEN c1
        ELSE IF c.markets.k = "arr" /\ Len(c.markets.items) > 0 THEN c1
        ELSE IF haveAllInitial(c) THEN [c1 EXCEPT !.markets = Arr(InitialOrEmpty(c))]
        ELSE [c1 EXCEPT !.loading = TRUE, !.error = Null,
                        !.fetching = @ + 1, !.issued = @ + 1]

\* onToggle after the await: the response is ok and its body is data
fetchResolved(c, data) ==
    [c EXCEPT !.markets = IF data.k = "arr" THEN data ELSE Arr(<<>>),
              !.loading = FALSE, !.fetching = @ - 1]

\* onToggle after the await: the fetch failed or the response is not ok
fetchRejected(c) ==
    [c EXCEPT !.error = Str, !.loading = FALSE, !.fetching = @ - 1]

items(c) ==
    IF c.markets.k = "arr" THEN c.markets.items
    ELSE IF haveAllInitial(c) THEN InitialOrEmpty(c) ELSE <<>>

showGrid(c) ==
    /\ c.expanded
    /\ \/ c.loading
       \/ c.error # Null
       \/ (IF c.markets.k = "arr" THEN Len(c.markets.items)
           ELSE Len(InitialOrEmpty(c))) > 0

\* the markets in the grid (none of the modelled markets is a placeholder)
Displayed(c) ==
    IF showGrid(c) /\ ~c.loading /\ c.error = Null THEN items(c) ELSE <<>>

CardOthers ==
    /\ component = "EventCard"
    /\ UNCHANGED <<component, wsUrlOk, sockVars, gmVars, bookVars, panelVars,
                   harnessVars, normVars, marketFields, parsed, obsVars, search, hist, line>>

Mount(totalCount, initialMarkets) ==
    /\ ~card.mounted
    /\ card' = [NoCard EXCEPT !.mounted = TRUE, !.totalCount = totalCount,
                              !.initialMarkets = initialMarkets]
    /\ CardOthers

Toggle ==
    /\ card.mounted
    /\ onToggle(card).issued <= MaxFetches
    /\ card' = onToggle(card)
    /\ CardOthers

FetchResolved(data) ==
    /\ card.fetching > 0
    /\ card' = fetchResolved(card, data)
    /\ CardOthers

FetchRejected ==
    /\ card.fetching > 0
    /\ card' = fetchRejected(card)
    /\ CardOthers

CardInit ==
    /\ component = "EventCard"
    /\ BaseInit(<<>>)
    /\ wsUrlOk

CardNext ==
    \/ \E totalCount \in {Undef} \cup {Num(n) : n \in 0..(MaxMarkets + 1)},
          initialMarkets \in {Undef, Null} \cup {Arr(MarketList("initial", n)) : n \in 0..MaxMarkets} :
          Mount(totalCount, initialMarkets)
    \/ Toggle
    \/ \E data \in {Null} \cup {Arr(MarketList("server", n)) : n \in 0..MaxMarkets} :
          FetchResolved(data)
    \/ FetchRejected

SpecCard == CardInit /\ [][CardNext]_vars

----------------------------------------------------------------------------
(* Normalizers.  A raw value is drawn, one of the four copies is applied  *)
(* to it, and the same copy is applied to its result.                     *)

Copies == {"parse.normProb", "GraphModal.normProb", "EventCard.norm", "EventCard.normProb"}

Normalize(copy, v) ==
    CASE copy = "parse.normProb" -> normProb(v)
      [] copy = "GraphModal.normProb" -> GraphModal_normProb(v)
      [] copy = "EventCard.norm" -> EventCard_norm(v)
      [] copy = "EventCard.normProb" -> EventCard_normProb(v)

\* raw numbers at, next to and between the bounds of the ranges of the policy
RawNumbers ==
    { -5 * Unit, -1, 0, 1, Unit \div 2, Unit, Unit + 100, 93 * Unit, 95 * Unit,
      100 * Unit, 100 * Unit + 10000, 9300 * Unit, 10000 * Unit, 10000 * Unit + 1,
      20000 * Unit }
RawValues ==
    {Num(n) : n \in RawNumbers} \cup {NumStr(n) : n \in RawNumbers}
        \cup {NaN, Inf, Null, Undef, Str, EmptyStr, Bool(FALSE), Bool(TRUE)}

NormOthers ==
    /\ component = "Normalizer"
    /\ UNCHANGED <<component, wsUrlOk, sockVars, gmVars, bookVars, panelVars,
                   harnessVars, extVars, obsVars>>

Draw(v) ==
    /\ norm.arg = Undef /\ norm.runs = <<>>
    /\ norm' = [arg |-> v, runs |-> <<>>]
    /\ NormOthers

NormalizeOnce(copy) ==
    /\ norm.runs = <<>>
    /\ norm' = [norm EXCEPT !.runs = <<[copy |-> copy, value |-> Normalize(copy, norm.arg)]>>]
    /\ NormOthers

NormalizeAgain ==
    /\ Len(norm.runs) = 1
    /\ norm' = [norm EXCEPT !.runs =
                   Append(@, [copy |-> @[1].copy, value |-> Normalize(@[1].copy, @[1].value)])]
    /\ NormOthers

NormInit ==
    /\ component = "Normalizer"
    /\ BaseInit(<<>>)
    /\ wsUrlOk

NormNext ==
    \/ \E v \in RawValues : Draw(v)
    \/ \E copy \in Copies : NormalizeOnce(copy)
    \/ NormalizeAgain

SpecNorm == NormInit /\ [][NormNext]_vars

----------------------------------------------------------------------------
(* SearchPage (search/page.tsx).  The record holds the query box and the    *)
(* limit select (standing for every filter of the debounce effect), the    *)
(* React state loading / error / sections, the two refs, the timers that    *)
(* setTimeout armed and clearTimeout has not cancelled (each with the q and *)
(* limit its closure saw), and the requests issued so far, a request being  *)
(* in flight until its response arrives.  error and sections name the      *)
(* request whose failure or whose results they show, 0 for "" and [].      *)
(* logged are the requests add() wrote to the history, runs counts the     *)
(* debounced runs (observation only).                                      *)

Queries == {"", " ", "a", "a ", "b"}
Limits == {10, 20}
trim(q) == IF q = " " THEN "" ELSE IF q = "a " THEN "a" ELSE q
Clamp(lo, hi, n) == IF n < lo THEN lo ELSE IF n > hi THEN hi ELSE n
buildSearchUrl(q, limit) == [q |-> q, limit |-> Clamp(1, MaxLimit, limit)]

runSearch_NoDedupe(S, q, limit, intent) ==
    LET trimmed == trim(q)
        urlKey == buildSearchUrl(trimmed, limit)
    IN  IF trimmed = "" THEN [S EXCEPT !.sections = 0, !.error = 0]
        ELSE [S EXCEPT !.lastSearchParamsRef = <<urlKey>>,
                       !.loading = TRUE, !.error = 0,
                       !.requests = Append(@, [url |-> urlKey, intent |-> intent]),
                       !.inflight = @ \cup {Len(S.requests) + 1}]

\* runSearch up to its await: the request it issues, if any, is in flight
runSearch(S, q, limit, intent) ==
    LET trimmed == trim(q)
        urlKey == buildSearchUrl(trimmed, limit)
    IN  IF trimmed = "" THEN [S EXCEPT !.sections = 0, !.error = 0]
        ELSE IF intent = "debounced" /\ S.lastSearchParamsRef = <<urlKey>> THEN S
        ELSE [S EXCEPT !.lastSearchParamsRef = <<urlKey>>,
                       !.loading = TRUE, !.error = 0,
                       !.requests = Append(@, [url |-> urlKey, intent |-> intent]),
                       !.inflight = @ \cup {Len(S.requests) + 1}]

\* the rest of runSearch after a response that is ok: try block, then finally
searchResolved(S, r) ==
    [S EXCEPT !.inflight = @ \ {r}, !.sections = r, !.logged = @ \cup {r},
              !.loading = FALSE]

\* the rest of runSearch after a response that is not ok or a fetch that threw
searchRejected(S, r) ==
    [S EXCEPT !.inflight = @ \ {r}, !.sections = 0, !.error = r, !.loading = FALSE]

\* the debounce effect: it runs after the render that changed q or a filter
debounceEffect(S) ==
    [S EXCEPT !.timers = {t \in @ : t.id # S.debounceRef}
                            \cup {[id |-> S.nTimers + 1, q |-> S.q, limit |-> S.limit]},
              !.debounceRef = S.nTimers + 1,
              !.nTimers = @ + 1]

SearchOthers ==
    /\ component = "SearchPage"
    /\ UNCHANGED <<component, wsUrlOk, sockVars, gmVars, bookVars, panelVars,
                   harnessVars, normVars, marketFields, card, parsed, hist, line, obsVars>>

SearchMount ==
    /\ ~search.mounted
    /\ search' = debounceEffect([search EXCEPT !.mounted = TRUE])
    /\ SearchOthers

\* a keystroke in the query box or a choice in the limit select
Change(q, limit) ==
    /\ search.mounted
    /\ <<q, limit>> # <<search.q, search.limit>>
    /\ search.nTimers < MaxTimers
    /\ search' = debounceEffect([search EXCEPT !.q = q, !.limit = limit])
    /\ SearchOthers

\* 300 ms passed since timer t was armed and nothing cancelled it
TimerFires(t) ==
    /\ t \in search.timers
    /\ LET S == runSearch([search EXCEPT !.timers = @ \ {t}, !.runs = @ + 1],
                          t.q, t.limit, "debounced")
       IN  /\ Len(S.requests) <= MaxRequests
           /\ search' = S
    /\ SearchOthers

\* the Search button is disabled while loading and while the query is blank
Submit ==
    /\ search.mounted
    /\ ~search.loading /\ trim(search.q) # ""
    /\ Len(search.requests) < MaxRequests
    /\ search' = runSearch(search, search.q, search.limit, "submit")
    /\ SearchOthers

Resolved(r) ==
    /\ r \in search.inflight
    /\ search' = searchResolved(search, r)
    /\ SearchOthers

Rejected(r) ==
    /\ r \in search.inflight
    /\ search' = searchRejected(search, r)
    /\ SearchOthers

SearchInit ==
    /\ component = "SearchPage"
    /\ BaseInit(<<>>)
    /\ wsUrlOk

SearchNext ==
    \/ SearchMount
    \/ \E q \in Queries, limit \in Limits : Change(q, limit)
    \/ \E t \in search.timers : TimerFires(t)
    \/ Submit
    \/ \E r \in 1..MaxRequests : Resolved(r)
    \/ \E r \in 1..MaxRequests : Rejected(r)

SpecSearch == SearchInit /\ [][SearchNext]_vars

----------------------------------------------------------------------------
(* HistoryProvider (ui/HistoryStore.tsx).  An entry is [id, ts, rev]: ids   *)
(* are fresh (Math.random), ts is the clock now, which every add advances,  *)
(* rev counts the patches update merged in.  store is the IndexedDB object  *)
(* store, keyed by id.  The asynchronous calls are split where they wait:   *)
(* loadEntries reads the store (LoadRead) and later resolves (LoadDone);    *)
(* the flush hands its entries to saveEntry (saving) and each put lands     *)
(* later (SaveDone); clearAllEntries lands later (ClearDone).  returned,    *)
(* adds, updates and clears are observation only, and so are touched, the   *)
(* ids added or patched since the last clear(), and stale, those added or   *)
(* patched before it.                                                       *)

\* sizes of the store the provider mounts over: empty, and around the cap
StoredBefore == {0, HistoryMax - 1, HistoryMax, HistoryMax + 1}
Entry(id, ts) == [id |-> id, ts |-> ts, rev |-> 0]
\* the entries a store holds after n adds of earlier sessions were flushed
StoreOf(n) == {Entry(i, i) : i \in 1..n}
IdsOf(entries) == {entries[i].id : i \in DOMAIN entries}
slice(s, n) == SubSeq(s, 1, IF Len(s) < n THEN Len(s) ELSE n)
\* Map.set(entry.id, entry) and store.put(entry), the key being the id
Put(map, entry) == {e \in map : e.id # entry.id} \cup {entry}

\* loadEntries: the cursor walks the ts index backwards, newest first
loadEntries(store, now) ==
    LET stamps == SelectSeq([i \in 1..now |-> now + 1 - i],
                            LAMBDA t : \E e \in store : e.ts = t)
    IN  [i \in 1..Len(stamps) |-> CHOOSE e \in store : e.ts = stamps[i]]

\* the flush effect runs after every render with a new entries array
flushEffect(H) == [H EXCEPT !.flushTimer = H.initRef]

add_NoSlice(H) ==
    LET entry == Entry(H.now + 1, H.now + 1) IN
    flushEffect([H EXCEPT !.now = @ + 1,
                          !.entries = <<entry>> \o @,
                          !.pendingUpdatesRef = Put(@, entry),
                          !.returned = entry.id, !.adds = @ + 1,
                          !.touched = @ \cup {entry.id}])

add(H) ==
    LET entry == Entry(H.now + 1, H.now + 1) IN
    flushEffect([H EXCEPT !.now = @ + 1,
                          !.entries = slice(<<entry>> \o @, HistoryMax),
                          !.pendingUpdatesRef = Put(@, entry),
                          !.returned = entry.id, !.adds = @ + 1,
                          !.touched = @ \cup {entry.id}])

update(H, id) ==
    LET patched(it) == IF it.id = id THEN [it EXCEPT !.rev = @ + 1] ELSE it
        hits == {patched(H.entries[i]) : i \in {j \in DOMAIN H.entries : H.entries[j].id = id}}
    IN  flushEffect([H EXCEPT !.entries = [i \in DOMAIN @ |-> patched(@[i])],
                              !.pendingUpdatesRef = {e \in @ : e.id # id} \cup hits,
                              !.updates = @ + 1,
                              !.touched = @ \cup {e.id : e \in hits}])

clear(H) ==
    flushEffect([H EXCEPT !.entries = <<>>, !.clearing = @ + 1,
                          !.clears = @ + 1,
                          !.stale = @ \cup H.touched, !.touched = {}])

\* the callback of the flush timer
flush(H) ==
    [H EXCEPT !.flushTimer = FALSE,
              !.saving = {e \in @ : \A u \in H.pendingUpdatesRef : u.id # e.id}
                             \cup H.pendingUpdatesRef,
              !.pendingUpdatesRef = {}]

Calls(H) == H.adds + H.updates + H.clears

HistOthers ==
    /\ component = "HistoryProvider"
    /\ UNCHANGED <<component, wsUrlOk, sockVars, gmVars, bookVars, panelVars,
                   harnessVars, normVars, marketFields, card, parsed, search, line, obsVars>>

\* the provider mounts over a store of n entries: both effects run
HistMount(n) ==
    /\ ~hist.mounted
    /\ hist' = flushEffect([hist EXCEPT !.mounted = TRUE, !.initRef = TRUE,
                                        !.load = "opening",
                                        !.store = StoreOf(n), !.now = n])
    /\ HistOthers

LoadRead ==
    /\ hist.load = "opening"
    /\ hist' = [hist EXCEPT !.load = "read", !.loaded = loadEntries(hist.store, hist.now)]
    /\ HistOthers

LoadDone ==
    /\ hist.load = "read"
    /\ hist' = flushEffect([hist EXCEPT !.load = "done", !.loaded = <<>>,
                                        !.entries = slice(hist.loaded, HistoryMax)])
    /\ HistOthers

HistAdd ==
    /\ hist.mounted /\ Calls(hist) < MaxCalls
    /\ hist' = add(hist)
    /\ HistOthers

HistUpdate(id) ==
    /\ hist.mounted /\ Calls(hist) < MaxCalls
    /\ hist' = update(hist, id)
    /\ HistOthers

HistClear ==
    /\ hist.mounted /\ Calls(hist) < MaxCalls
    /\ hist' = clear(hist)
    /\ HistOthers

FlushFires ==
    /\ hist.flushTimer
    /\ hist' = flush(hist)
    /\ HistOthers

SaveDone(e) ==
    /\ e \in hist.saving
    /\ hist' = [hist EXCEPT !.saving = @ \ {e}, !.store = Put(@, e)]
    /\ HistOthers

ClearDone ==
    /\ hist.clearing > 0
    /\ hist' = [hist EXCEPT !.clearing = @ - 1, !.store = {}]
    /\ HistOthers

HistInit ==
    /\ component = "HistoryProvider"
    /\ BaseInit(<<>>)
    /\ wsUrlOk

\* the ids update is called with: the newest entry on screen, and one not there
UpdateIds == (IF hist.entries = <<>> THEN {} ELSE {hist.entries[1].id}) \cup {0}

HistNext ==
    \/ \E n \in StoredBefore : HistMount(n)
    \/ LoadRead
    \/ LoadDone
    \/ HistAdd
    \/ \E id \in UpdateIds : HistUpdate(id)
    \/ HistClear
    \/ FlushFires
    \/ \E e \in hist.saving : SaveDone(e)
    \/ ClearDone

SpecHistory == HistInit /\ [][HistNext]_vars

----------------------------------------------------------------------------
(* PriceChart: toLineData.  A point is [t, p], t in milliseconds and p a    *)
(* number or null; the argument is Undef or Arr of a list of points.       *)

Stamps == {0 - 1, 0, 999, 1000, 2000}
Prices == {Null, Num(1), Num(2)}
SeriesPoints == [t : Stamps, p : Prices]
PointLists(n) == [1..n -> SeriesPoints]

\* Math.floor(t / 1000)
SecondOf(t) == t \div MsPerSecond

\* Array.prototype.sort with (a, b) => a.time - b.time: ascending and stable
RECURSIVE sortByTime(_)
sortByTime(s) ==
    IF s = <<>> THEN <<>>
    ELSE LET rest == sortByTime(SubSeq(s, 1, Len(s) - 1))
             it == s[Len(s)]
         IN  SelectSeq(rest, LAMBDA a : a.time <= it.time) \o <<it>>
                 \o SelectSeq(rest, LAMBDA a : a.time > it.time)

\* the loop over mapped: a later point of the same second replaces the last one
RECURSIVE dedupe(_, _)
dedupe(out, mapped) ==
    IF mapped = <<>> THEN out
    ELSE LET it == Head(mapped) IN
         dedupe(IF out = <<>> \/ it.time > out[Len(out)].time
                    THEN Append(out, it)
                    ELSE [out EXCEPT ![Len(out)] = it],
                Tail(mapped))

mapPoints(points) ==
    LET kept == SelectSeq(points, LAMBDA d : d.p # Null)
    IN  [i \in 1..Len(kept) |-> [time |-> SecondOf(kept[i].t), value |-> kept[i].p.v]]

toLineData_NoSort(points) ==
    IF points = Undef THEN <<>> ELSE dedupe(<<>>, mapPoints(points.items))

toLineData(points) ==
    IF points = Undef THEN <<>> ELSE dedupe(<<>>, sortByTime(mapPoints(points.items)))

LineOthers ==
    /\ component = "PriceChart"
    /\ UNCHANGED <<component, wsUrlOk, sockVars, gmVars, bookVars, panelVars,
                   harnessVars, normVars, marketFields, card, parsed, search, hist, obsVars>>

\* the chart is given its data prop
SetData(points) ==
    /\ line' = [NoLine EXCEPT !.points = points]
    /\ LineOthers

Convert ==
    /\ ~line.called
    /\ line' = [line EXCEPT !.out = toLineData(line.points), !.called = TRUE]
    /\ LineOthers

LineInit ==
    /\ component = "PriceChart"
    /\ BaseInit(<<>>)
    /\ wsUrlOk

LineNext ==
    \/ /\ line = NoLine
       /\ \/ SetData(Undef)
          \/ \E n \in 0..MaxPoints : \E points \in PointLists(n) : SetData(Arr(points))
    \/ Convert

SpecLine == LineInit /\ [][LineNext]_vars

----------------------------------------------------------------------------
(* Claims *)

Sides == {"bids", "asks"}
SideOf(book, side) == IF side = "bids" THEN book.bids ELSE book.asks
IsGM == component = "GraphModal"

\* the connection state and the event counter of the client the behaviour is about
ConnState == IF IsGM THEN wsStateRef ELSE stateRef
Counter == IF IsGM THEN wsMessageCountRef ELSE messageCountRef
LastEventState == IF IsGM THEN <<wsLastEventRef, wsLastEvent>> ELSE <<lastEventRef, lastEvent>>

\* C1: every entry of book.bids and book.asks has size > 0 after any sequence of
\* updates; an update that would leave a level at size <= 0 removes the key.
C1_PositiveSizes ==
    bookRef # <<>> =>
        \A side \in Sides : \A key \in DOMAIN SideOf(bookRef[1], side) :
            SideOf(bookRef[1], side)[key] > 0

\* C1 witness: a bid of size 2 at 0.45 received a delta of -2 and its key is gone
C1_Witness ==
    /\ before # <<>>
    /\ 45000 \in DOMAIN before[1].bids /\ before[1].bids[45000] = 2
    /\ pending[1].bids = <<Level(Num(45000), Undef, Num(-2))>>
    /\ 45000 \notin DOMAIN bookRef[1].bids

\* the indices of the levels of lvls that address key and satisfy Keep
AtKey(lvls, key, Keep(_)) ==
    {i \in 1..Len(lvls) : /\ IsFinite(lvls[i].price)
                          /\ quantize(lvls[i].price.v) = key
                          /\ Keep(lvls[i])}
KeysOf(lvls) == {quantize(lvls[i].price.v) : i \in {j \in 1..Len(lvls) : IsFinite(lvls[j].price)}}
HasPositiveSize(lvl) == IsFinite(lvl.size) /\ lvl.size.v > 0
HasSize(lvl) == IsFinite(lvl.size)

\* the levels with a finite price and a positive size, the last one winning per key
PositiveLastWins(lvls) ==
    LET keys == {key \in KeysOf(lvls) : AtKey(lvls, key, HasPositiveSize) # {}}
    IN  [key \in keys |-> lvls[SetMax(AtKey(lvls, key, HasPositiveSize))].size.v]

\* per key the last level that has a size decides: kept when that size is positive
LastSizedDecides(lvls) ==
    LET keys == {key \in KeysOf(lvls) :
                    /\ AtKey(lvls, key, HasSize) # {}
                    /\ lvls[SetMax(AtKey(lvls, key, HasSize))].size.v > 0}
    IN  [key \in keys |-> lvls[SetMax(AtKey(lvls, key, HasSize))].size.v]

\* C2 as stated: after a snapshot each side holds exactly the snapshot's levels
\* with a finite price and a positive size, the last occurrence winning per
\* quantized price, and nothing of the earlier book.
C2_Original ==
    (before # <<>> /\ pending[1].snapshot) =>
        bookRef[1] = [bids |-> PositiveLastWins(pending[1].bids),
                      asks |-> PositiveLastWins(pending[1].asks)]

\* C2 amended: after a snapshot the book depends on the snapshot alone, and per
\* quantized price the snapshot's last level that carries a size decides: the key
\* holds that size when it is positive and is absent otherwise.
C2_SnapshotAlone ==
    (before # <<>> /\ pending[1].snapshot) =>
        bookRef[1] = [bids |-> LastSizedDecides(pending[1].bids),
                      asks |-> LastSizedDecides(pending[1].asks)]

\* C2 witness: a snapshot of bids replaced a book that had asks
C2_Witness ==
    /\ before # <<>> /\ pending[1].snapshot
    /\ before[1].asks # EmptyMap /\ before[1].bids # EmptyMap
    /\ pending[1].asks = <<>>
    /\ bookRef[1].asks = EmptyMap /\ bookRef[1].bids # EmptyMap

RECURSIVE FoldFrames(_, _)
FoldFrames(book, fs) ==
    IF fs = <<>> THEN book
    ELSE FoldFrames(
             ApplyBookUpdate(book, parseOrderbookLevels(Lower(Frames[Head(fs)].vendor),
                                                        Frames[Head(fs)].data)),
             Tail(fs))

Reverse(q) == [i \in 1..Len(q) |-> q[Len(q) + 1 - i]]

\* C3: the book equals the result of applying the orderbook frames received since
\* the book was created one at a time, whole, in their order of arrival.
C3_BookIsFold ==
    (IsGM /\ bookRef # <<>>) => bookRef[1] = FoldFrames(EmptyBook, applied)

\* C3 witness: two frames were applied whose order matters
C3_Witness ==
    /\ IsGM /\ bookRef # <<>>
    /\ Len(applied) = 2
    /\ FoldFrames(EmptyBook, applied) # FoldFrames(EmptyBook, Reverse(applied))

\* C4: after disconnectWs / disconnect was called on a socket, no callback of that
\* socket changes the book, the event counter or the last-event state; stated
\* for the callbacks that run while a later connection is the current one.
C4_StoppedSocketSilent ==
    [][\A s \in stopped :
          (sockets'[s] # sockets[s] /\ wsRef \notin {0, s}) =>
              /\ bookRef' = bookRef
              /\ Counter' = Counter
              /\ wsEventCount' = wsEventCount
              /\ LastEventState' = LastEventState]_vars

\* C5: at most one socket is connecting or open, and wsRef refers to it and the
\* connection state is not "disconnected".
C5_OneLiveSocket ==
    LET live == {s \in SocketIds : Live(sockets[s])}
    IN  /\ Cardinality(live) <= 1
        /\ \A s \in live : wsRef = s /\ ConnState # "disconnected"

\* C6: the connection state only moves disconnected -> connecting -> connected
\* and connecting / connected -> disconnected.
C6_Transitions ==
    [][ConnState' # ConnState =>
          <<ConnState, ConnState'>> \in
              {<<"disconnected", "connecting">>, <<"connecting", "connected">>,
               <<"connecting", "disconnected">>, <<"connected", "disconnected">>}]_vars

LogSet(sock) == {sock.log[i] : i \in DOMAIN sock.log}

\* C7: in every state of a mounted client, disconnecting leaves the state
\* "disconnected" with no socket reference, a second call changes nothing, and an
\* unsubscribe frame is sent only on an OPEN socket, before close().
C7_DisconnectIdempotent ==
    page = "mounted" =>
        IF IsGM
        THEN LET d == disconnectWs(G)
             IN  /\ d.wsState = "disconnected" /\ d.wsStateRef = "disconnected"
                 /\ d.wsRef = 0
                 /\ disconnectWs(d) = d
                 /\ \A s \in SocketIds :
                        d.sockets[s].log # sockets[s].log =>
                            d.sockets[s].log = sockets[s].log \o
                                (IF sockets[s].readyState = "OPEN"
                                 THEN <<"unsubscribe", "close">> ELSE <<"close">>)
        ELSE LET d == disconnect(P)
             IN  /\ d.state = "disconnected" /\ d.stateRef = "disconnected"
                 /\ d.wsRef = 0
                 /\ disconnect(d) = d
                 /\ \A s \in SocketIds :
                        d.sockets[s].log # sockets[s].log =>
                            d.sockets[s].log = sockets[s].log \o
                                (IF sockets[s].readyState = "OPEN"
                                 THEN <<"unsubscribe", "close">> ELSE <<"close">>)

\* C8: the event counter equals the number of messages received on the open
\* connection.
C8_CounterMatches ==
    \A s \in SocketIds : sockets[s].readyState = "OPEN" => Counter = sockets[s].recv

\* C9: a socket that opened was sent exactly one subscribe frame, as the first
\* call made on it; a socket that did not open was sent no frame at all.
C9_SubscribeFirst ==
    \A s \in SocketIds :
        LET log == sockets[s].log
        IN  /\ Cardinality({i \in DOMAIN log : log[i] = "subscribe"}) =
                   (IF sockets[s].opened THEN 1 ELSE 0)
            /\ sockets[s].opened => log[1] = "subscribe"
            /\ ~sockets[s].opened => "unsubscribe" \notin LogSet(sockets[s])

\* C9 witness: a socket was subscribed, then unsubscribed and closed
C9_Witness ==
    \E s \in SocketIds : sockets[s].log = <<"subscribe", "unsubscribe", "close">>

C11_OwnMarketOnly ==
    [][\A s \in SocketIds :
          (IsGM /\ sockets'[s].recv = sockets[s].recv + 1 /\ sockets[s].sub # market)
              => bookRef' = bookRef]_vars

\* an update of one level, not a snapshot, has been applied
OneLevel ==
    /\ before # <<>>
    /\ ~pending[1].snapshot
    /\ Len(pending[1].bids) + Len(pending[1].asks) = 1
TheSide == IF Len(pending[1].bids) = 1 THEN "bids" ELSE "asks"
OtherSide == IF TheSide = "bids" THEN "asks" ELSE "bids"
TheLevel == SideOf(pending[1], TheSide)[1]
TheKey == quantize(TheLevel.price.v)
HeldBefore == SideOf(before[1], TheSide)
HeldNow == SideOf(bookRef[1], TheSide)
OtherSideKept == SideOf(bookRef[1], OtherSide) = SideOf(before[1], OtherSide)
IsDelta(lvl) == IsFinite(lvl.price) /\ IsFinite(lvl.delta)
IsAbsolute(lvl) == IsFinite(lvl.price) /\ ~IsFinite(lvl.delta) /\ IsFinite(lvl.size)

\* C12: a negative relative delta on a price that has no entry on its side leaves
\* the whole book unchanged; an empty book stays empty.
C12_NegativeDeltaUnknown ==
    (OneLevel /\ IsDelta(TheLevel) /\ TheLevel.delta.v < 0
              /\ TheKey \notin DOMAIN HeldBefore)
        => bookRef[1] = before[1]

\* C12 witness: an ask delta of -2 was applied to the empty book
C12_Witness ==
    /\ OneLevel /\ before[1] = EmptyBook
    /\ pending[1].asks = <<Level(Num(45000), Undef, Num(-2))>>
    /\ bookRef[1] = EmptyBook

\* C13 as stated: a relative delta >= 0 on a price with no entry inserts the
\* price with size equal to the delta.
C13_Original ==
    (OneLevel /\ IsDelta(TheLevel) /\ TheLevel.delta.v >= 0
              /\ TheKey \notin DOMAIN HeldBefore)
        => (TheKey \in DOMAIN HeldNow /\ HeldNow[TheKey] = TheLevel.delta.v)

\* C13 amended: a relative delta > 0 on a price with no entry inserts the price
\* with size equal to the delta and changes nothing else; a delta of 0 on such a
\* price leaves the book unchanged.
C13_PositiveDeltaInserts ==
    (OneLevel /\ IsDelta(TheLevel) /\ TheLevel.delta.v >= 0
              /\ TheKey \notin DOMAIN HeldBefore)
        => IF TheLevel.delta.v > 0
           THEN /\ HeldNow = MapSet(HeldBefore, TheKey, TheLevel.delta.v)
                /\ TheKey \in DOMAIN HeldNow /\ HeldNow[TheKey] = TheLevel.delta.v
                /\ OtherSideKept
           ELSE bookRef[1] = before[1]

\* C13 witness: a bid delta of +1 created the level 0.45 next to another bid
C13_Witness ==
    /\ OneLevel /\ TheSide = "bids"
    /\ IsDelta(TheLevel) /\ TheLevel.delta.v = 1
    /\ DOMAIN before[1].bids = {50000}
    /\ DOMAIN bookRef[1].bids = {45000, 50000} /\ bookRef[1].bids[45000] = 1

\* C14: a relative delta on a price that holds size s sets the entry to s + delta
\* when s + delta > 0 and removes the key when s + delta <= 0.
C14_DeltaOnHeldLevel ==
    (OneLevel /\ IsDelta(TheLevel) /\ TheKey \in DOMAIN HeldBefore)
        => LET next == HeldBefore[TheKey] + TheLevel.delta.v
           IN  /\ next > 0 => (TheKey \in DOMAIN HeldNow /\ HeldNow[TheKey] = next)
               /\ next <= 0 => TheKey \notin DOMAIN HeldNow
               /\ \A key \in (DOMAIN HeldBefore \cup DOMAIN HeldNow) \ {TheKey} :
                      /\ key \in DOMAIN HeldBefore /\ key \in DOMAIN HeldNow
                      /\ HeldNow[key] = HeldBefore[key]
               /\ OtherSideKept

\* C14 witness: a level of size 1 received a delta of -2 and was removed
C14_Witness ==
    /\ OneLevel /\ IsDelta(TheLevel) /\ TheLevel.delta.v = -2
    /\ TheKey \in DOMAIN HeldBefore /\ HeldBefore[TheKey] = 1
    /\ TheKey \notin DOMAIN HeldNow

\* C15: a level that carries an absolute size and no delta replaces the entry at
\* its quantized price whatever was held: the key holds that size when it is
\* positive and is absent when it is <= 0.
C15_AbsoluteSizeReplaces ==
    (OneLevel /\ IsAbsolute(TheLevel))
        => /\ TheLevel.size.v > 0 =>
                  (TheKey \in DOMAIN HeldNow /\ HeldNow[TheKey] = TheLevel.size.v)
           /\ TheLevel.size.v <= 0 => TheKey \notin DOMAIN HeldNow
           /\ \A key \in (DOMAIN HeldBefore \cup DOMAIN HeldNow) \ {TheKey} :
                  /\ key \in DOMAIN HeldBefore /\ key \in DOMAIN HeldNow
                  /\ HeldNow[key] = HeldBefore[key]
           /\ OtherSideKept

\* C15 witness: a level held at size 3 was replaced by the absolute size 2
C15_Witness ==
    /\ OneLevel /\ IsAbsolute(TheLevel) /\ TheLevel.size.v = 2
    /\ TheKey \in DOMAIN HeldBefore /\ HeldBefore[TheKey] = 3
    /\ HeldNow[TheKey] = 2

StrictlyDescending(levels) ==
    \A i \in 1..Len(levels) - 1 : levels[i].price > levels[i + 1].price
StrictlyAscending(levels) ==
    \A i \in 1..Len(levels) - 1 : levels[i].price < levels[i + 1].price
RowsOf(levels) == {levels[i] : i \in DOMAIN levels}
\* the entries of a side with fewer than n entries above (below) them
Highest(m, n) ==
    {[price |-> k, size |-> m[k]] :
        k \in {k \in DOMAIN m : Cardinality({h \in DOMAIN m : h > k}) < n}}
Lowest(m, n) ==
    {[price |-> k, size |-> m[k]] :
        k \in {k \in DOMAIN m : Cardinality({h \in DOMAIN m : h < k}) < n}}

\* C16: after every applied update the lists shown are the top 10 of the book:
\* at most 10 bids, strictly descending, exactly the 10 highest-priced bid
\* entries; at most 10 asks, strictly ascending, exactly the 10 lowest-priced.
C16_TopOfBook ==
    component = "TopOfBook" =>
        /\ topBids(obBids) = obBids /\ topAsks(obAsks) = obAsks
        /\ Len(obBids) <= 10 /\ Len(obAsks) <= 10
        /\ StrictlyDescending(obBids) /\ StrictlyAscending(obAsks)
        /\ RowsOf(obBids) = Highest(bookRef[1].bids, 10)
        /\ RowsOf(obAsks) = Lowest(bookRef[1].asks, 10)

\* C16 witness: the book holds more than 10 prices per side and 10 are shown
C16_Witness ==
    /\ component = "TopOfBook"
    /\ Cardinality(DOMAIN bookRef[1].bids) > 10
    /\ Cardinality(DOMAIN bookRef[1].asks) > 10
    /\ Len(obBids) = 10 /\ Len(obAsks) = 10

RanCopy == norm.runs[1].copy
InUnitIntervalOrNull(x) == x = Null \/ (x.k = "num" /\ x.v >= 0 /\ x.v <= Unit)
IsNumeric(v) == v.k \in {"num", "numstr", "nan", "inf"}

\* C17: for every numeric input v, normProb(normProb(v)) = normProb(v), and
\* normProb(v) is null or a value in [0,1] (parse.ts and GraphModal copies).
C17_Idempotent ==
    (Len(norm.runs) = 2 /\ IsNumeric(norm.arg)
        /\ RanCopy \in {"parse.normProb", "GraphModal.normProb"})
        => /\ norm.runs[2].value = norm.runs[1].value
           /\ InUnitIntervalOrNull(norm.runs[1].value)

\* C17 witness: the raw percent value 93 became 0.93 and stayed 0.93
C17_Witness ==
    /\ norm.arg = Num(93 * Unit)
    /\ norm.runs = <<[copy |-> "parse.normProb", value |-> Num(93000)],
                     [copy |-> "parse.normProb", value |-> Num(93000)]>>

\* the policy as stated: what is not a number or a numeric string gives null
Policy(v) ==
    IF v.k \notin {"num", "numstr"} THEN Null
    ELSE IF v.v >= 0 /\ v.v <= Unit THEN Num(v.v)
    ELSE IF v.v > Unit /\ v.v <= 100 * Unit THEN Num(v.v \div 100)
    ELSE IF v.v > 100 * Unit /\ v.v <= 10000 * Unit THEN Num(v.v \div 10000)
    ELSE IF v.v < 0 THEN Num(0)
    ELSE Num(Unit)

\* C18: normProb follows the policy on every input: null or non-numeric gives
\* null; [0,1] unchanged; (1,100] divided by 100; (100,10000] divided by 10000;
\* any other number clamped to [0,1].
C18_Policy ==
    (Len(norm.runs) >= 1 /\ RanCopy \in {"parse.normProb", "GraphModal.normProb"})
        => norm.runs[1].value = Policy(norm.arg)

\* C19: the four copies of the normalizer return the same result for every input.
C19_CopiesAgree ==
    Len(norm.runs) >= 1 =>
        \A copy \in Copies : Normalize(copy, norm.arg) = norm.runs[1].value

\* C19 witness: EventCard's norm put the numeric string "9300" at 0.93
C19_Witness ==
    /\ norm.arg = NumStr(9300 * Unit)
    /\ Len(norm.runs) = 1
    /\ norm.runs[1] = [copy |-> "EventCard.norm", value |-> Num(93000)]

\* C20: after any sequence of orderbook frames every price key of the book lies
\* in [0,1] and is a whole multiple of 1/10000, so that two levels whose prices
\* round to the same basis point address the same key.
C20_KeysQuantized ==
    (IsGM /\ bookRef # <<>>) =>
        \A side \in Sides : \A key \in DOMAIN SideOf(bookRef[1], side) :
            /\ key >= 0 /\ key <= Unit
            /\ key % (Unit \div 10000) = 0

\* C20 witness: the snapshot bid at the raw price 45 and the batch bid at 0.45004
\* met at the key 0.45
C20_Witness ==
    /\ IsGM /\ bookRef # <<>>
    /\ applied = <<3, 4>>
    /\ bookRef[1].bids = MapSet(EmptyMap, 45000, 3)

Partial(c) ==
    \/ c.initialMarkets.k # "arr"
    \/ Len(c.initialMarkets.items) = 0
    \/ c.totalCount.k = "num" /\ Len(c.initialMarkets.items) < c.totalCount.v

\* C24: with an absent, empty or short initial list an expanded card has issued a
\* fetch and no market of the initial list is in the grid; with a complete initial
\* list the grid of the expanded card is the initial list and no fetch is issued.
C24_FetchBeforeDisplay ==
    card.mounted =>
        /\ Partial(card) =>
              /\ \A i \in DOMAIN Displayed(card) : Displayed(card)[i].from # "initial"
              /\ card.expanded => card.issued > 0
        /\ ~Partial(card) =>
              /\ card.issued = 0
              /\ card.expanded => Displayed(card) = card.initialMarkets.items

\* C24 witness: one initial market out of two; the grid shows the two fetched ones
C24_Witness ==
    /\ card.mounted /\ card.expanded
    /\ card.totalCount = Num(2) /\ card.initialMarkets = Arr(MarketList("initial", 1))
    /\ card.issued = 1
    /\ Displayed(card) = MarketList("server", 2)

\* an identifier that is given: a string with something in it
NonEmpty(v) == v.k = "str"
GivenIdentifiers(mk) == {Identifiers[i] : i \in {j \in DOMAIN Identifiers : NonEmpty(mk[Identifiers[j]])}}

\* C29: a socket exists only for a market with a provider and a given identifier,
\* the subscribe message sent on it has type "subscribe" and a market object with
\* the provider and exactly the given identifiers; for any other market no socket
\* is constructed and the state stays "disconnected".
C29_SubscribeNeedsIdentifier ==
    LET ok == NonEmpty(marketFields.provider) /\ GivenIdentifiers(marketFields) # {}
        msg == wsPayload(MarketOf(market))
    IN  /\ \A s \in SocketIds :
              /\ sockets[s].readyState # "NONE" => ok
              /\ "subscribe" \in LogSet(sockets[s]) =>
                    /\ msg.type = "subscribe"
                    /\ DOMAIN msg.market = {"provider"} \cup GivenIdentifiers(marketFields)
                    /\ \A k \in DOMAIN msg.market : msg.market[k] = marketFields[k]
        /\ ~ok => /\ nSockets = 0 /\ wsRef = 0
                  /\ wsState = "disconnected" /\ wsStateRef = "disconnected"
                  /\ ~ENABLED StartLive

\* C29 witness: the subscribe message of a market with a ticker, a blank
\* market_id and an empty slug has been sent
C29_Witness ==
    /\ marketFields = [provider |-> Str, ticker |-> Str, market_id |-> Blank,
                       vendor_market_id |-> Null, slug |-> EmptyStr]
    /\ wsRef # 0 /\ "subscribe" \in LogSet(sockets[wsRef])
    /\ wsState = "connected"

\* the payload of the parser call and its shape
Payload == parsed.raw.own
Called == parsed.out # <<>>
Result == parsed.out[1]
BookOf ==
    IF Payload.orderbook # <<>> THEN Payload.orderbook[1]
    ELSE IF Payload.book # <<>> THEN Payload.book[1]
    ELSE [bids |-> Payload.bids, asks |-> Payload.asks]
IsSnapshotPayload == BookOf.bids # <<>> \/ BookOf.asks # <<>>
IsBatchPayload == ~IsSnapshotPayload /\ Payload.deltas # <<>> /\ Payload.deltas[1] # <<>>
IsSinglePayload ==
    /\ ~IsSnapshotPayload /\ ~IsBatchPayload
    /\ parsed.vendor = "kalshi" /\ Payload.price.k # "undef" /\ Payload.delta.k \in {"num", "nan"}

\* a price that is there and is a number or the text of one
NumericPrice(v) == v.k \in {"num", "numstr"}
SideNamed(u) ==
    IF Lower(u.side) \in {"bid", "buy", "b"} THEN "bid"
    ELSE IF Lower(u.side) \in {"ask", "sell", "s"} THEN "ask"
    ELSE ""

\* the levels of the records of a snapshot array that are not malformed
RECURSIVE KeptOfSnapshot(_)
KeptOfSnapshot(list) ==
    IF list = <<>> THEN <<>>
    ELSE LET it == Head(list)
         IN  (IF it.form \in {"array", "object"} /\ NumericPrice(it.price)
              THEN <<Level(normProb(it.price), it.size, Undef)>> ELSE <<>>)
                 \o KeptOfSnapshot(Tail(list))

\* the levels of the records of a batch that are not malformed and name the side
RECURSIVE KeptOfBatch(_, _)
KeptOfBatch(list, side) ==
    IF list = <<>> THEN <<>>
    ELSE LET u == Head(list)
         IN  (IF u.form = "object" /\ NumericPrice(u.price) /\ SideNamed(u) = side
              THEN <<Level(normProb(u.price), u.size, Undef)>> ELSE <<>>)
                 \o KeptOfBatch(Tail(list), side)

\* what a snapshot or batch payload gives when exactly its malformed records are skipped
KeptUpdate ==
    IF IsSnapshotPayload
    THEN [bids |-> IF BookOf.bids # <<>> THEN KeptOfSnapshot(BookOf.bids[1]) ELSE <<>>,
          asks |-> IF BookOf.asks # <<>> THEN KeptOfSnapshot(BookOf.asks[1]) ELSE <<>>,
          snapshot |-> TRUE]
    ELSE [bids |-> KeptOfBatch(Payload.deltas[1], "bid"),
          asks |-> KeptOfBatch(Payload.deltas[1], "ask"),
          snapshot |-> FALSE]

\* C22: of a snapshot or batched payload exactly the records with a missing or
\* non-numeric price (in a batch, also those naming no side) are skipped; the
\* others are parsed, in order, and applied to the book.
C22_MalformedSkipped ==
    (Called /\ (IsSnapshotPayload \/ IsBatchPayload)) =>
        /\ Result = KeptUpdate
        /\ before # <<>> => bookRef[1] = ApplyBookUpdate(before[1], KeptUpdate)

\* the records of a batch that name a side the parser does not know, with a price
UnknownSided(list) ==
    {i \in DOMAIN list : list[i].form = "object" /\ NumericPrice(list[i].price)
                            /\ SideNamed(list[i]) = ""}
LevelSetOf(levels) == {levels[i] : i \in DOMAIN levels}

\* C23 as stated: a delta with an unrecognized side is a bid delta in the batched
\* path and in the Kalshi single path alike.
C23_Original ==
    Called =>
        /\ IsBatchPayload =>
              \A i \in UnknownSided(Payload.deltas[1]) :
                  /\ Level(normProb(Payload.deltas[1][i].price), Payload.deltas[1][i].size, Undef)
                        \in LevelSetOf(Result.bids)
        /\ (IsSinglePayload /\ Lower(Payload.side) \notin {"yes", "no"}
               /\ NumericPrice(Payload.price) /\ IsFinite(Payload.delta)) =>
              /\ Result.bids = <<Level(normProb(Payload.price), Undef, Payload.delta)>>
              /\ Result.asks = <<>>

\* C23: in the Kalshi single {side, price, delta} path a side other than yes / no
\* makes the delta a bid delta; in the batched path a record whose side is not
\* recognized is dropped and gives no level on either side.
C23_FailOpenSinglePathOnly ==
    Called =>
        /\ IsBatchPayload =>
              /\ Len(Result.bids) + Len(Result.asks)
                    <= Len(Payload.deltas[1]) - Cardinality(UnknownSided(Payload.deltas[1]))
              /\ UnknownSided(Payload.deltas[1]) = DOMAIN Payload.deltas[1]
                    => Result = NoUpdate
        /\ (IsSinglePayload /\ Lower(Payload.side) \notin {"yes", "no"}
               /\ NumericPrice(Payload.price) /\ IsFinite(Payload.delta)) =>
              /\ Result.bids = <<Level(normProb(Payload.price), Undef, Payload.delta)>>
              /\ Result.asks = <<>>
              /\ before # <<>> =>
                    /\ DOMAIN bookRef[1].bids =
                          DOMAIN before[1].bids \cup {quantize(normProb(Payload.price).v)}
                    /\ bookRef[1].asks = before[1].asks

\* C23 witness: the Kalshi delta {side: "maybe", price: 0.45, delta: 1} was parsed
\* and applied
C23_Witness ==
    /\ Called /\ IsSinglePayload /\ before # <<>>
    /\ Payload.side = "maybe" /\ Payload.price = Num(45000) /\ Payload.delta = Num(1)
    /\ DOMAIN bookRef[1].bids = {45000} /\ bookRef[1].bids[45000] = 1

\* a payload of no recognized shape, or a batch with a record that has no price
Unmappable ==
    \/ ~IsSnapshotPayload /\ ~IsBatchPayload /\ ~IsSinglePayload
    \/ IsBatchPayload /\ \E i \in DOMAIN Payload.deltas[1] :
                            Payload.deltas[1][i].price.k = "undef"

\* C27: the parser does not answer a payload it cannot map with an empty update.
C27_UnmappableFails == Called => ~(Unmappable /\ Result = NoUpdate)

\* the frames given to the reconciler that are snapshots
SnapshotsApplied ==
    {i \in DOMAIN applied :
        parseOrderbookLevels(Lower(Frames[applied[i]].vendor), Frames[applied[i]].data).snapshot}

\* C25: while no snapshot has been applied to a book, the book and the displayed
\* top of book hold no level.
C25_NoDeltaBeforeSnapshot ==
    (IsGM /\ bookRef # <<>> /\ SnapshotsApplied = {}) =>
        /\ bookRef[1] = EmptyBook
        /\ obBids = <<>> /\ obAsks = <<>>

\* a level of the pending update the reconciler cannot apply to the book it had
Unappliable(lvl, m) ==
    /\ IsFinite(lvl.price)
    /\ \/ ~IsFinite(lvl.size) /\ ~IsFinite(lvl.delta)
       \/ /\ ~IsFinite(lvl.size) /\ IsFinite(lvl.delta) /\ lvl.delta.v < 0
          /\ ~MapHas(m, quantize(lvl.price.v))

\* C26: once an update with a level that cannot be applied has gone through the
\* reconciler, the consumer holds an error or status signal.
C26_GapSurfaced ==
    (pending # <<>> /\ before # <<>>
        /\ \/ \E i \in DOMAIN pending[1].bids : Unappliable(pending[1].bids[i], before[1].bids)
           \/ \E i \in DOMAIN pending[1].asks : Unappliable(pending[1].asks[i], before[1].asks))
        => wsError # ""

\* a connection that ended without close() having been called on its socket
Failed(s) == sockets[s].readyState = "CLOSED" /\ "close" \notin LogSet(sockets[s])

\* C28: after a connection has failed or was closed by the server, the client is
\* connecting again at some later time, whatever the user does.
C28_Reconnects == (\E s \in SocketIds : Failed(s)) ~> (wsStateRef = "connecting")

\* C30: once the modal has unmounted, at some later time no socket it constructed
\* is connecting or open any more.
C30_AllSocketsClosed == (page = "unmounted") ~> (\A s \in SocketIds : ~Live(sockets[s]))

\* the entry of a side's map at a key, <<>> when there is none
EntryAt(m, key) == IF MapHas(m, key) THEN <<m[key]>> ELSE <<>>

\* C31: a non-snapshot update leaves every (side, key) its levels do not name as
\* it was, and an update without levels leaves the whole book as it was.
C31_OnlyNamedKeysChange ==
    (pending # <<>> /\ before # <<>> /\ ~pending[1].snapshot) =>
        /\ \A side \in Sides :
              \A key \in (DOMAIN SideOf(before[1], side) \cup DOMAIN SideOf(bookRef[1], side))
                            \ KeysOf(SideOf(pending[1], side)) :
                  EntryAt(SideOf(bookRef[1], side), key) = EntryAt(SideOf(before[1], side), key)
        /\ (pending[1].bids = <<>> /\ pending[1].asks = <<>>) => bookRef = before

\* C31 witness: bids 0.45 and 0.5 and an ask were held, a delta on bid 0.45 changed
\* that entry alone
C31_Witness ==
    /\ pending # <<>> /\ before # <<>> /\ ~pending[1].snapshot
    /\ DOMAIN before[1].bids = {45000, 50000} /\ before[1].asks # EmptyMap
    /\ pending[1].asks = <<>> /\ KeysOf(pending[1].bids) = {45000}
    /\ bookRef[1].bids[50000] = before[1].bids[50000]
    /\ EntryAt(bookRef[1].bids, 45000) # EntryAt(before[1].bids, 45000)
    /\ bookRef[1].asks = before[1].asks

\* C32: the result is marked snapshot exactly when the book object of the payload
\* has an array for bids or for asks; a result not so marked clears nothing: every
\* entry whose key its levels do not name is still held.
C32_SnapshotIffBookArrays ==
    Called =>
        /\ Result.snapshot <=> (BookOf.bids # <<>> \/ BookOf.asks # <<>>)
        /\ (before # <<>> /\ BookOf.bids = <<>> /\ BookOf.asks = <<>>) =>
              \A side \in Sides :
                  \A key \in DOMAIN SideOf(before[1], side) \ KeysOf(SideOf(Result, side)) :
                      EntryAt(SideOf(bookRef[1], side), key) = EntryAt(SideOf(before[1], side), key)

\* C32 witness: a batch was applied to a book that held a bid and an ask, which
\* are still held, and the batch's own level was added
C32_Witness ==
    /\ Called /\ before # <<>> /\ before[1].bids # EmptyMap /\ before[1].asks # EmptyMap
    /\ IsBatchPayload /\ ~Result.snapshot
    /\ DOMAIN bookRef[1].bids = DOMAIN before[1].bids \cup {45000}
    /\ bookRef[1].asks = before[1].asks

\* C33: Connect with a payload that is not JSON or not a subscribe object sets an
\* error text, constructs no socket, sends nothing and leaves the state
\* "disconnected"; while the state is "connecting" or "connected" connect changes
\* nothing.
C33_ConnectValidates ==
    [][/\ (Connect /\ payload # "subscribe") =>
              /\ error' = (IF payload = "not json" THEN "Payload must be valid JSON"
                           ELSE "Payload must be a subscribe message object")
              /\ sockets' = sockets /\ nSockets' = nSockets /\ wsRef' = wsRef
              /\ state' = "disconnected" /\ stateRef' = stateRef
       /\ state \in {"connecting", "connected"} =>
              \A pl \in Payloads, ok \in BOOLEAN : connect(P, pl, ok) = P]_vars

\* C33 witness: Connect was clicked on text that is not JSON, after an earlier
\* connection was opened and closed
C33_Witness ==
    /\ component = "DvWsPanel" /\ payload = "not json"
    /\ error = "Payload must be valid JSON"
    /\ state = "disconnected" /\ wsRef = 0
    /\ nSockets = 1 /\ sockets[1].readyState = "CLOSED"

\* the request whose response the page shows and the request issued last
UrlOf(r) == search.requests[r].url
LastIssued == Len(search.requests)

\* C34: once every response has arrived, the sections and the error shown are those
\* of the request issued last, never of an older request whose response came later,
\* and the loading flag is off.
C34_LatestRequestWins ==
    (search.requests # <<>> /\ search.inflight = {}) =>
        /\ search.sections # 0 => UrlOf(search.sections) = UrlOf(LastIssued)
        /\ search.error # 0 => UrlOf(search.error) = UrlOf(LastIssued)
        /\ ~search.loading

\* the debounced runs that issue a request, in a step from S to T
Fired(S, T) == {t \in S.timers : T = runSearch([S EXCEPT !.timers = @ \ {t}, !.runs = @ + 1],
                                              t.q, t.limit, "debounced")}
Issued(S, T) == Len(T.requests) - Len(S.requests)

\* C35: at most one debounce timer is armed at a time, and a request of intent
\* "debounced" is issued only by the run of that timer, one per run; the run issues
\* nothing when the URL is that of the last issued search or the trimmed query is
\* empty, and then also clears the sections and the error; a submit with a query
\* that is not blank issues a request for the query on screen.
C35_Debounce ==
    [][/\ Cardinality(search'.timers) <= 1
       /\ Issued(search, search') \in {0, 1}
       /\ (Issued(search, search') = 1 /\ search'.requests[LastIssued + 1].intent = "debounced")
              => Fired(search, search') # {}
       /\ \A t \in Fired(search, search') :
              LET urlKey == buildSearchUrl(trim(t.q), t.limit) IN
              /\ (trim(t.q) = "" \/ search.lastSearchParamsRef = <<urlKey>>)
                     => /\ search'.requests = search.requests
                        /\ search'.inflight = search.inflight
              /\ trim(t.q) = "" => search'.sections = 0 /\ search'.error = 0
       /\ (Submit /\ trim(search.q) # "")
              => /\ Issued(search, search') = 1
                 /\ search'.requests[LastIssued + 1] =
                        [url |-> buildSearchUrl(trim(search.q), search.limit),
                         intent |-> "submit"]
                 /\ LastIssued + 1 \in search'.inflight]_vars

\* C35 witness: "a" was typed and submitted, request 1 failed, and the debounce timer
\* of the keystroke then ran: the URL being that of request 1, it issued nothing
C35_Witness ==
    /\ search.q = "a" /\ search.timers = {} /\ search.runs = 1
    /\ Len(search.requests) = 1 /\ search.requests[1].intent = "submit"
    /\ search.inflight = {} /\ search.error = 1
\* C36: the in-memory list never holds more than 200 entries; add() puts the new
\* entry at the front of the list it found, cut to 200, and returns that entry's id.
C36_HistoryCapped ==
    [][/\ Len(hist'.entries) <= HistoryMax
       /\ HistAdd =>
              LET stored == hist'.entries[1] IN
              /\ stored.id \notin IdsOf(hist.entries)
              /\ hist'.entries = slice(<<stored>> \o hist.entries, HistoryMax)
              /\ hist'.returned = stored.id]_vars

\* C36 witness: 200 entries were loaded and one was added: the list holds 200, the new
\* entry 201 in front, and the oldest entry 1 is gone
C36_Witness ==
    /\ hist.load = "done" /\ hist.adds = 1
    /\ Len(hist.entries) = HistoryMax
    /\ hist.entries[1].id = HistoryMax + 1 /\ hist.returned = HistoryMax + 1
    /\ hist.entries[HistoryMax].id = 2

\* no flush timer is armed and no put and no clear is on its way to the store
Flushed == ~hist.flushTimer /\ hist.saving = {} /\ hist.clearing = 0

\* C37: after clear(), once the pending flushes have run, the store holds no entry
\* that was added or updated before the clear (and not since).
C37_ClearedStaysCleared ==
    (hist.clears > 0 /\ Flushed) =>
        \A e \in hist.store : e.id \notin hist.stale \ hist.touched

\* C38: the completion of the initial load keeps every entry that add() put in the
\* in-memory list before it.
C38_LoadKeepsAdded ==
    [][LoadDone => IdsOf(hist.entries) \subseteq IdsOf(hist'.entries)]_vars
\* the points of the input that have a price, by position, and the seconds they fall in
Priced == IF line.points = Undef THEN {}
          ELSE {i \in DOMAIN line.points.items : line.points.items[i].p # Null}
SecondAt(i) == SecondOf(line.points.items[i].t)
LastIn(sec) == CHOOSE i \in Priced : SecondAt(i) = sec /\ \A j \in Priced : SecondAt(j) = sec => j <= i

\* C39: the times toLineData returns are strictly increasing whole seconds: they are
\* the seconds in which some point with a price falls, each once, and the value at a
\* second is the price of the last point of the input in that second.
C39_StrictlyIncreasing ==
    line.called =>
        /\ \A i \in 1..(Len(line.out) - 1) : line.out[i].time < line.out[i + 1].time
        /\ {line.out[i].time : i \in DOMAIN line.out} = {SecondAt(i) : i \in Priced}
        /\ \A i \in DOMAIN line.out :
               line.out[i].value = line.points.items[LastIn(line.out[i].time)].p.v

\* C39 witness: the points (2000 ms, 1), (999 ms, 1), (0 ms, 2) come newest first
\* and two of them fall in second 0: the result is sorted, and (0 ms, 2) wins
C39_Witness ==
    /\ line.called
    /\ line.points = Arr(<<[t |-> 2000, p |-> Num(1)], [t |-> 999, p |-> Num(1)],
                           [t |-> 0, p |-> Num(2)]>>)
    /\ line.out = <<[time |-> 0, value |-> 2], [time |-> 2, value |-> 1]>>
====
